---- MODULE Spec2Model ----
(***************************************************************************)
(* A model of the AudioGridder server's audio processing core:             *)
(*   - AGProcessor     (Server/Source/ProcessorChain.cpp), the wrapper of  *)
(*                     one plugin instance,                                *)
(*   - ProcessorChain  (Server/Source/ProcessorChain.cpp), the ordered     *)
(*                     list of wrappers and its aggregates,                *)
(*   - AudioWorker     (Server/Source/AudioWorker.cpp), the per-session    *)
(*                     block loop.                                         *)
(* The headers (ProcessorChain.hpp, AudioWorker.hpp) are not part of the   *)
(* sources at hand; what they define (isOk, AGProcessor::prepareToPlay,    *)
(* AGProcessor::releaseResources, the members' initial values) is modelled *)
(* from the specification and marked so where it is defined.               *)
(***************************************************************************)
EXTENDS Integers, Sequences, FiniteSets, TLC

VARIABLES
    \* ---- AGProcessor objects and the process-wide counter
    wrapper,                     \* an AGProcessor of its own (in no chain)
    destroyed,                   \* how the destroyed AGProcessors were left
    loadedCount,                 \* AGProcessor::loadedCount
    loadRet,                     \* what the last AGProcessor::load returned
    \* ---- ProcessorChain
    m_processors,                \* the ordered list of AGProcessors
    busesLayout,                 \* the chain's own BusesLayout
    m_extraChannels,
    m_hasSidechain,
    m_sidechainDisabled,
    latencySamples,              \* AudioProcessor::getLatencySamples of the chain
    m_supportsDoublePrecission,
    m_tailSecs,
    lastOp,                      \* the chain operation that completed last
    \* ---- AudioWorker
    pc,                          \* where AudioWorker::run stands
    threadShouldExit,            \* Thread::signalThreadShouldExit was called
    connected,                   \* m_socket->isConnected()
    cur,                         \* the block read in this iteration (0: none)
    curChannels,                 \* its channel count
    readLog,                     \* blocks read, in order
    procLog,                     \* blocks handed to the chain, in order
    sendLog,                     \* <<block, ok>> for every sendToClient call
    endCause,                    \* the fatal error that ended the session
    activeInputs,                \* m_activeChannels.getNumActiveChannels(true)
    atShutdown,                  \* where run stood when shutdown() was called
    exitCleared,                 \* the wrappers run's final clear() destroyed
    \* ---- bypass FIFOs of one wrapper
    m_lastKnownLatency,
    m_bypassBufferF,             \* Array<Array<float>>
    m_bypassBufferD,             \* Array<Array<double>>
    chainIn,                     \* m_chain.getTotalNumInputChannels()
    chainOut,                    \* m_chain.getTotalNumOutputChannels()
    inHistF, outHistF,           \* per channel: samples fed to / returned by
    inHistD, outHistD,           \*   processBlockBypassed since the FIFOs were set up
    \* ---- bypass FIFOs of the wrappers of a chain
    lastKnownLatencies,          \* m_lastKnownLatency of every wrapper of the chain
    bypassBuffers,               \* m_bypassBufferF of every wrapper of the chain
    \* ---- threads that load and unload wrappers, and the plugin instances
    m_parallelLoadAllowed,       \* getParallelPluginLoad() of the server
    m_pluginLoaderMtx,           \* the thread that holds it (0: free)
    lpc,                         \* where each thread stands in load() / unload()
    lwr,                         \* the wrapper each thread works on (0: none)
    lp,                          \* each thread's local shared_ptr p (0: nullptr)
    lres,                        \* how the load() under way went
    m_plugin,                    \* every wrapper's m_plugin (0: nullptr)
    held,                        \* the handle an in-flight block holds (0: none)
    created,                     \* the plugin instances created so far
    msgQueue,                    \* MessageManager::callAsync calls not yet run
    deletes,                     \* per instance: how often it was deleted
    \* ---- the recents lists
    m_recents,                   \* AudioWorker::m_recents: host -> list of descriptions
    rpc,                         \* each thread's addToRecentsList call under way
    lastAdd,                     \* the insert done last: host, plugin, m_recents before
    \* ---- plugin ids
    idPc,                        \* "input" while the input is put together, then "done"
    idIn,                        \* the id handed to convertJUCEtoAGPluginID
    idOut,                       \* what it returned
    pluglist,                    \* the catalog: a list of descriptions
    descIn,                      \* position of the description that is looked up
    found,                       \* what findPluginDescritpion returned: <<>> or <<desc>>
    \* ---- the session's threads and the mutexes they take
    mtx,                         \* per mutex: the thread that holds it (0: free)
    tpc,                         \* where each thread stands
    tw,                          \* the AGProcessor a control thread works on
    numChannels,                 \* numChannels of AudioWorker::processBlock (0: not there)
    m_channels                   \* the worker's <<m_channelsIn, m_channelsOut, m_channelsSC>>

wrapperVars == <<wrapper, destroyed, loadedCount, loadRet>>
chainVars   == <<m_processors, busesLayout, m_extraChannels, m_hasSidechain,
                 m_sidechainDisabled, latencySamples, m_supportsDoublePrecission,
                 m_tailSecs, lastOp>>
workerVars  == <<pc, threadShouldExit, connected, cur, curChannels, readLog,
                 procLog, sendLog, endCause, activeInputs, atShutdown, exitCleared>>
bypassVars  == <<m_lastKnownLatency, m_bypassBufferF, m_bypassBufferD, chainIn,
                 chainOut, inHistF, outHistF, inHistD, outHistD>>
\* The wrappers of a chain on the bypass path.
chainBypassVars == <<lastKnownLatencies, bypassBuffers>>
loaderVars == <<m_parallelLoadAllowed, m_pluginLoaderMtx, lpc, lwr, lp, lres, m_plugin,
                held, created, msgQueue, deletes>>
recentsVars == <<m_recents, rpc, lastAdd>>
idVars == <<idPc, idIn, idOut, pluglist, descIn, found>>
lockVars == <<mtx, tpc, tw, numChannels, m_channels>>
auxVars == <<chainBypassVars, loaderVars, recentsVars, idVars, lockVars>>
vars == <<wrapperVars, chainVars, workerVars, bypassVars, auxVars>>

(***************************************************************************)
(* Bounds of the model.                                                    *)
(***************************************************************************)
MaxChain == 2
MaxBlocks == 2
MaxSamples == 3
MaxLatency == 2
MaxBufChannels == 2

(***************************************************************************)
(* Small helpers.                                                          *)
(***************************************************************************)
Max2(a, b) == IF a >= b THEN a ELSE b
Min2(a, b) == IF a <= b THEN a ELSE b
jmax(a, b, c) == Max2(a, Max2(b, c))
Range(s) == {s[i] : i \in 1..Len(s)}
\* juce::Array::remove(index): an index out of range removes nothing.
\* Bus index b of the code is position b + 1 here.
RemoveAt(s, i) ==
    IF i \in 1..Len(s)
    THEN [j \in 1..(Len(s) - 1) |-> IF j < i THEN s[j] ELSE s[j + 1]]
    ELSE s
RECURSIVE SumFrom(_, _)
SumFrom(s, i) == IF i > Len(s) THEN 0 ELSE s[i] + SumFrom(s, i + 1)

(***************************************************************************)
(* The plugin catalog (getApp()->getPluginList()) and the plugins.  A      *)
(* plugin is external code; what the chain sees of it is its latency, its  *)
(* tail, whether it supports double precision, the layout it comes with    *)
(* and which layouts checkBusesLayoutSupported accepts.  A layout is the   *)
(* channel count of every input bus and of every output bus.               *)
(***************************************************************************)
NoPlugin == "none"
Flex == "Flex"        \* accepts every layout
NoSC == "NoSC"        \* accepts any layout without a second input bus
MonoSC == "MonoSC"    \* accepts a second input bus only when it is mono
Fixed == "Fixed"      \* accepts only the layout it comes with, which is wider
Mono == "Mono"        \* accepts only the layout it comes with, which is mono
PluginKinds == {Flex, NoSC, MonoSC, Fixed, Mono}
UnknownId == "unknown"   \* an id the catalog does not resolve
PluginIds == PluginKinds \cup {UnknownId}

Layout(ins, outs) == [ins |-> ins, outs |-> outs]
PluginLatency(k) ==
    CASE k = Flex -> 64 [] k = NoSC -> 128 [] k = MonoSC -> 0 [] k = Fixed -> 4 [] OTHER -> 0
PluginTail(k) ==
    CASE k = Flex -> 1 [] k = NoSC -> 2 [] k = MonoSC -> 0 [] k = Fixed -> 3 [] OTHER -> 0
PluginDouble(k) == k \notin {NoSC, Mono}
PluginDefaultLayout(k) ==
    CASE k = Fixed -> Layout(<<4>>, <<4, 2>>)
      [] k = Mono -> Layout(<<1>>, <<1>>)
      [] OTHER -> Layout(<<2>>, <<2>>)
checkBusesLayoutSupported(k, l) ==
    CASE k = Flex -> TRUE
      [] k = NoSC -> Len(l.ins) <= 1
      [] k = MonoSC -> Len(l.ins) <= 1 \/ (Len(l.ins) = 2 /\ l.ins[2] = 1)
      [] OTHER -> l = PluginDefaultLayout(k)

\* BusesLayout::getChannelSet(isInput, bus).size(), getMainInputChannels(), ...
BusSize(buses, b) == IF b + 1 \in 1..Len(buses) THEN buses[b + 1] ELSE 0
\* The sizes of the buses after the main one.
ExtraBuses(buses) == SumFrom(buses, 2)

\* AGProcessor::findPluginDescritpion, as far as the chain needs it: the kind
\* the id resolves to, or NoPlugin (nullptr).
findPluginDescritpion(id) == IF id \in PluginKinds THEN id ELSE NoPlugin

(***************************************************************************)
(* AGProcessor.                                                            *)
(***************************************************************************)
\* No object.
Dead == [alive |-> FALSE, id |-> "", plugin |-> NoPlugin, prepared |-> FALSE,
         suspended |-> FALSE, chainIdx |-> -1, extraIn |-> 0, extraOut |-> 0,
         needsDisabledSidechain |-> FALSE, layout |-> Layout(<<>>, <<>>)]

\* AGProcessor::AGProcessor: the members' initial values.
NewWrapper(id) == [Dead EXCEPT !.alive = TRUE, !.id = id]

\* The negotiation that never tries the mono sidechain bus.
setProcessorBusesLayoutNoMono(r, cl, hasSC, scd, ec) ==
    IF r.plugin = NoPlugin
    THEN [supported |-> FALSE, w |-> r, scd |-> scd, ec |-> ec, candidate |-> 0]
    ELSE
    LET k == r.plugin
        \* "the sidechain has been disabled, removing it from the standard layout"
        layout1 == IF hasSC /\ scd THEN Layout(RemoveAt(cl.ins, 2), cl.outs) ELSE cl
        hasSidechain == hasSC /\ ~scd
        sup1 == checkBusesLayoutSupported(k, layout1)
        tryMono == FALSE
        layout2 == IF tryMono
                   THEN Layout(Append(RemoveAt(layout1.ins, 2), 1), layout1.outs)
                   ELSE layout1
        sup2 == tryMono /\ checkBusesLayoutSupported(k, layout2)
        \* "trying without sidechain bus"
        tryNone == ~sup1 /\ hasSidechain /\ ~sup2
        layout3 == IF tryNone THEN Layout(RemoveAt(layout2.ins, 2), layout2.outs)
                   ELSE layout2
        sup3 == tryNone /\ checkBusesLayoutSupported(k, layout3)
        \* "falling back to the plugins default layout"
        fallback == ~sup1 /\ ~sup2 /\ ~sup3
        procLayout == r.layout
        extraInChannels == BusSize(procLayout.ins, 0) - BusSize(layout3.ins, 0)
                           + ExtraBuses(procLayout.ins)
        extraOutChannels == BusSize(procLayout.outs, 0) - BusSize(layout3.outs, 0)
                            + ExtraBuses(procLayout.outs)
        \* plugin->setBusesLayout(layout) of the accepted candidate
        adopted == CASE sup1 -> layout1 [] sup2 -> layout2 [] sup3 -> layout3
                     [] OTHER -> procLayout
    IN  [supported |-> TRUE,
         w |-> [r EXCEPT
                  !.layout = adopted,
                  !.needsDisabledSidechain = IF sup3 \/ fallback THEN TRUE ELSE @,
                  !.extraIn = IF fallback THEN extraInChannels ELSE @,
                  !.extraOut = IF fallback THEN extraOutChannels ELSE @],
         scd |-> IF sup3 \/ (fallback /\ hasSidechain) THEN TRUE ELSE scd,
         ec |-> IF fallback THEN jmax(ec, extraInChannels, extraOutChannels) ELSE ec,
         candidate |-> CASE sup1 -> 1 [] sup2 -> 2 [] sup3 -> 3 [] OTHER -> 4]

(***************************************************************************)
(* ProcessorChain::setProcessorBusesLayout: the bus negotiation of wrapper *)
(* r on a chain with layout cl.  The result holds the wrapper and the      *)
(* chain fields the call writes.                                           *)
(***************************************************************************)
setProcessorBusesLayout(r, cl, hasSC, scd, ec) ==
    IF r.plugin = NoPlugin
    THEN [supported |-> FALSE, w |-> r, scd |-> scd, ec |-> ec, candidate |-> 0]
    ELSE
    LET k == r.plugin
        \* "the sidechain has been disabled, removing it from the standard layout"
        layout1 == IF hasSC /\ scd THEN Layout(RemoveAt(cl.ins, 2), cl.outs) ELSE cl
        hasSidechain == hasSC /\ ~scd
        sup1 == checkBusesLayoutSupported(k, layout1)
        \* "trying with mono sidechain bus"
        tryMono == ~sup1 /\ hasSidechain /\ BusSize(layout1.ins, 1) > 1
        layout2 == IF tryMono
                   THEN Layout(Append(RemoveAt(layout1.ins, 2), 1), layout1.outs)
                   ELSE layout1
        sup2 == tryMono /\ checkBusesLayoutSupported(k, layout2)
        \* "trying without sidechain bus"
        tryNone == ~sup1 /\ hasSidechain /\ ~sup2
        layout3 == IF tryNone THEN Layout(RemoveAt(layout2.ins, 2), layout2.outs)
                   ELSE layout2
        sup3 == tryNone /\ checkBusesLayoutSupported(k, layout3)
        \* "falling back to the plugins default layout"
        fallback == ~sup1 /\ ~sup2 /\ ~sup3
        procLayout == r.layout
        extraInChannels == BusSize(procLayout.ins, 0) - BusSize(layout3.ins, 0)
                           + ExtraBuses(procLayout.ins)
        extraOutChannels == BusSize(procLayout.outs, 0) - BusSize(layout3.outs, 0)
                            + ExtraBuses(procLayout.outs)
        \* plugin->setBusesLayout(layout) of the accepted candidate
        adopted == CASE sup1 -> layout1 [] sup2 -> layout2 [] sup3 -> layout3
                     [] OTHER -> procLayout
    IN  [supported |-> TRUE,
         w |-> [r EXCEPT
                  !.layout = adopted,
                  !.needsDisabledSidechain = IF sup3 \/ fallback THEN TRUE ELSE @,
                  !.extraIn = IF fallback THEN extraInChannels ELSE @,
                  !.extraOut = IF fallback THEN extraOutChannels ELSE @],
         scd |-> IF sup3 \/ (fallback /\ hasSidechain) THEN TRUE ELSE scd,
         ec |-> IF fallback THEN jmax(ec, extraInChannels, extraOutChannels) ELSE ec,
         candidate |-> CASE sup1 -> 1 [] sup2 -> 2 [] sup3 -> 3 [] OTHER -> 4]

\* ProcessorChain::initPluginInstance: the negotiation decides the result; the
\* precision, prepareToPlay, play head and warm-up calls go to the plugin
\* instance and leave the wrapper's and the chain's fields alone.
initPluginInstance(r, cl, hasSC, scd, ec) == setProcessorBusesLayout(r, cl, hasSC, scd, ec)

\* AGProcessor::loadPlugin(id, ...): the instance (its kind), or NoPlugin when
\* the id does not resolve or createPluginInstance fails (instOk false).
loadPlugin(id, instOk) ==
    IF findPluginDescritpion(id) # NoPlugin /\ instOk
    THEN findPluginDescritpion(id) ELSE NoPlugin

(***************************************************************************)
(* AGProcessor::load on wrapper r.  ret is the value returned.             *)
(***************************************************************************)
load(r, instOk, cl, hasSC, scd, ec, count) ==
    LET same == [ret |-> FALSE, w |-> r, scd |-> scd, ec |-> ec, count |-> count,
                 instantiated |-> FALSE]
    IN  IF r.plugin # NoPlugin
        THEN same                                   \* nullptr != p: loaded stays false
        ELSE LET p == loadPlugin(r.id, instOk)
                 r1 == [r EXCEPT !.plugin = p, !.layout = PluginDefaultLayout(p),
                                 !.suspended = FALSE]
                 init == initPluginInstance(r1, cl, hasSC, scd, ec)
             IN  IF p = NoPlugin THEN same
                 ELSE IF init.supported
                 THEN [ret |-> TRUE, w |-> init.w, scd |-> init.scd, ec |-> init.ec,
                       count |-> count + 1, instantiated |-> TRUE]
                 ELSE [same EXCEPT !.instantiated = TRUE]    \* m_plugin.reset()

(***************************************************************************)
(* AGProcessor::unload on wrapper r.                                       *)
(***************************************************************************)
unload(r, count) ==
    IF r.plugin # NoPlugin
    THEN [w |-> [r EXCEPT !.plugin = NoPlugin, !.suspended = FALSE,
                          !.layout = Layout(<<>>, <<>>)],
          count |-> count - 1]
    ELSE [w |-> r, count |-> count]

\* AGProcessor::~AGProcessor: unload(), then the object is gone.  What is kept
\* of it is the handle as unload left it.
Destroyed(r) == [Dead EXCEPT !.plugin = unload(r, 0).w.plugin]

\* AGProcessor::prepareToPlay and AGProcessor::releaseResources: forwarded to
\* the plugin when there is one, and m_prepared follows.
prepareToPlay(r) == IF r.plugin # NoPlugin THEN [r EXCEPT !.prepared = TRUE] ELSE r
releaseResources(r) == IF r.plugin # NoPlugin THEN [r EXCEPT !.prepared = FALSE] ELSE r

\* AGProcessor::suspendProcessing: suspends and releases, or prepares and
\* resumes, the plugin itself; m_prepared is not written.
suspendProcessing(r, shouldBeSuspended) ==
    IF r.plugin # NoPlugin THEN [r EXCEPT !.suspended = shouldBeSuspended] ELSE r

\* AGProcessor::getTailLengthSeconds, isSuspended
getTailLengthSeconds(r) == IF r.plugin # NoPlugin THEN PluginTail(r.plugin) ELSE 0
isSuspended(r) == r.suspended

(***************************************************************************)
(* ProcessorChain.                                                         *)
(***************************************************************************)
\* The loop of ProcessorChain::updateNoLock over m_processors, from position i
\* on, with the values accumulated so far.
RECURSIVE UpdateLoop(_, _, _, _)
UpdateLoop(procs, hasSC, i, acc) ==
    IF i > Len(procs) THEN acc
    ELSE LET r == procs[i]
         IN  UpdateLoop(procs, hasSC, i + 1,
                IF r.plugin # NoPlugin
                THEN [latency |-> acc.latency + PluginLatency(r.plugin),
                      supportsDouble |-> acc.supportsDouble /\ PluginDouble(r.plugin),
                      ec |-> jmax(acc.ec, r.extraIn, r.extraOut),
                      scd |-> hasSC /\ (acc.scd \/ r.needsDisabledSidechain)]
                ELSE acc)

\* The reverse scan of updateNoLock: the last wrapper that is not suspended
\* (0: none), looking from position i down.
RECURSIVE LastActive(_, _)
LastActive(procs, i) ==
    IF i = 0 THEN 0
    ELSE IF isSuspended(procs[i]) THEN LastActive(procs, i - 1) ELSE i

\* updateNoLock whose loop starts at the second wrapper.
updateNoLockFromSecond(procs, hasSC) ==
    LET acc == UpdateLoop(procs, hasSC, 2,
                   [latency |-> 0, supportsDouble |-> TRUE, ec |-> 0, scd |-> FALSE])
        it == LastActive(procs, Len(procs))
    IN  [latency |-> acc.latency, supportsDouble |-> acc.supportsDouble,
         ec |-> acc.ec, scd |-> acc.scd,
         tail |-> IF it # 0 THEN getTailLengthSeconds(procs[it]) ELSE 0]

\* ProcessorChain::updateNoLock: the aggregates of the list procs.
updateNoLock(procs, hasSC) ==
    LET acc == UpdateLoop(procs, hasSC, 1,
                   [latency |-> 0, supportsDouble |-> TRUE, ec |-> 0, scd |-> FALSE])
        it == LastActive(procs, Len(procs))
    IN  [latency |-> acc.latency, supportsDouble |-> acc.supportsDouble,
         ec |-> acc.ec, scd |-> acc.scd,
         tail |-> IF it # 0 THEN getTailLengthSeconds(procs[it]) ELSE 0]

\* The chain's fields after updateNoLock on the list procs.
SetAggregates(procs) ==
    LET u == updateNoLock(procs, m_hasSidechain)
    IN  /\ m_extraChannels' = u.ec
        /\ m_sidechainDisabled' = u.scd
        /\ latencySamples' = u.latency
        /\ m_supportsDoublePrecission' = u.supportsDouble
        /\ m_tailSecs' = u.tail

\* ProcessorChain::updateChannels builds the layout: the main input bus, the
\* sidechain bus, the main output bus (mono, stereo or discrete channels).
ChannelsLayout(channelsIn, channelsOut, channelsSC) ==
    Layout((IF channelsIn > 0 THEN <<channelsIn>> ELSE <<>>)
             \o (IF channelsSC = 1 THEN <<1>>
                 ELSE IF channelsSC = 2 THEN <<2>>
                 ELSE IF channelsSC > 0 THEN <<channelsIn>>   \* discreteChannels(channelsIn)
                 ELSE <<>>),
           IF channelsOut > 0 THEN <<channelsOut>> ELSE <<>>)

\* The session's channel counts <<in, out, sidechain>> the model draws from.
ChannelConfigs == {<<2, 2, 0>>, <<2, 2, 2>>}

(***************************************************************************)
(* Initial states.                                                         *)
(***************************************************************************)
\* A bool a call returned, as it is kept in loadRet.
Returned(b) == IF b THEN "true" ELSE "false"

\* shutdown() was not called.
NotShutDown == [pc |-> "none", cur |-> 0, reads |-> 0]

InitWrappers ==
    /\ wrapper = Dead
    /\ destroyed = {}
    /\ loadedCount = 0
    /\ loadRet = "none"

\* A chain as AudioWorker::init leaves it: constructed, then updateChannels.
InitChain ==
    /\ m_processors = <<>>
    /\ \E c \in ChannelConfigs :
          /\ busesLayout = ChannelsLayout(c[1], c[2], c[3])
          /\ m_hasSidechain = (c[3] > 0)
    /\ m_extraChannels = 0
    /\ m_sidechainDisabled = FALSE
    /\ latencySamples = 0
    /\ m_supportsDoublePrecission = TRUE
    /\ m_tailSecs = 0
    /\ lastOp = "init"

\* A chain that nothing is done with.
InitNoChain ==
    /\ m_processors = <<>>
    /\ busesLayout = ChannelsLayout(2, 2, 0)
    /\ m_hasSidechain = FALSE
    /\ m_extraChannels = 0
    /\ m_sidechainDisabled = FALSE
    /\ latencySamples = 0
    /\ m_supportsDoublePrecission = TRUE
    /\ m_tailSecs = 0
    /\ lastOp = "init"

InitWorker ==
    /\ pc = "start"
    /\ threadShouldExit = FALSE
    /\ connected = TRUE
    /\ cur = 0
    /\ curChannels = 0
    /\ readLog = <<>>
    /\ procLog = <<>>
    /\ sendLog = <<>>
    /\ endCause = "none"
    /\ activeInputs \in 1..MaxBufChannels
    /\ atShutdown = NotShutDown
    /\ exitCleared = -1

\* No bypass FIFOs are looked at.
InitNoBypass ==
    /\ m_lastKnownLatency = 0
    /\ m_bypassBufferF = <<>>
    /\ m_bypassBufferD = <<>>
    /\ chainIn = 0
    /\ chainOut = 0
    /\ inHistF = <<>>
    /\ outHistF = <<>>
    /\ inHistD = <<>>
    /\ outHistD = <<>>

\* The model looks at nothing but the chain, the wrapper or the worker.
InitNoChainBypass ==
    /\ lastKnownLatencies = <<>>
    /\ bypassBuffers = <<>>

\* No thread is in load() or unload() and no instance exists.
InitNoLoader ==
    /\ m_parallelLoadAllowed = FALSE
    /\ m_pluginLoaderMtx = 0
    /\ lpc = <<>>
    /\ lwr = <<>>
    /\ lp = <<>>
    /\ lres = <<>>
    /\ m_plugin = <<>>
    /\ held = 0
    /\ created = 0
    /\ msgQueue = <<>>
    /\ deletes = <<>>

\* No recents list is looked at.
InitNoRecents ==
    /\ m_recents = <<>>
    /\ rpc = <<>>
    /\ lastAdd = <<>>

\* No id is converted or looked up.
InitNoIds ==
    /\ idPc = "input"
    /\ idIn = <<>>
    /\ idOut = <<>>
    /\ pluglist = <<>>
    /\ descIn = 0
    /\ found = <<>>

\* No thread of a session is looked at.
InitNoLocks ==
    /\ mtx = <<>>
    /\ tpc = <<>>
    /\ tw = <<>>
    /\ numChannels = 0
    /\ m_channels = <<>>

InitNoAux ==
    InitNoChainBypass /\ InitNoLoader /\ InitNoRecents /\ InitNoIds /\ InitNoLocks

(***************************************************************************)
(* The chain's operations.                                                 *)
(***************************************************************************)
\* ProcessorChain::addProcessor: setChainIndex, push_back (updateNoLock follows).
addProcessor(procs, r) == Append(procs, [r EXCEPT !.chainIdx = Len(procs)])

\* ProcessorChain::addPluginProcessor(id): a new wrapper, load, addProcessor.
\* A wrapper whose load fails is destroyed with the local shared_ptr.
addPluginProcessor(id, instOk) ==
    /\ Len(m_processors) < MaxChain
    /\ LET l == load(NewWrapper(id), instOk, busesLayout, m_hasSidechain,
                     m_sidechainDisabled, m_extraChannels, loadedCount)
       IN  /\ loadRet' = Returned(l.ret)
           /\ IF l.ret
              THEN /\ m_processors' = addProcessor(m_processors, l.w)
                   /\ loadedCount' = l.count
                   /\ SetAggregates(addProcessor(m_processors, l.w))
                   /\ lastOp' = "add"
                   /\ UNCHANGED destroyed
              ELSE /\ destroyed' = destroyed \cup {Destroyed(l.w)}
                   /\ loadedCount' = unload(l.w, l.count).count
                   /\ m_extraChannels' = l.ec
                   /\ m_sidechainDisabled' = l.scd
                   /\ lastOp' = "addFailed"
                   /\ UNCHANGED <<m_processors, latencySamples,
                                  m_supportsDoublePrecission, m_tailSecs>>
    /\ UNCHANGED <<wrapper, busesLayout, m_hasSidechain, workerVars, bypassVars, auxVars>>

\* The list after the loop of ProcessorChain::delProcessor(idx): the element
\* at idx, if there is one, is erased.
Erased(procs, idx) == RemoveAt(procs, idx + 1)

\* ProcessorChain::delProcessor(idx): erase, then updateNoLock.  The erased
\* shared_ptr was the wrapper's only owner, so the wrapper is destroyed.
delProcessor(idx) ==
    LET hit == idx + 1 \in 1..Len(m_processors)
        procs == Erased(m_processors, idx)
    IN  /\ m_processors' = procs
        /\ destroyed' = IF hit THEN destroyed \cup {Destroyed(m_processors[idx + 1])}
                        ELSE destroyed
        /\ loadedCount' = IF hit THEN unload(m_processors[idx + 1], loadedCount).count
                          ELSE loadedCount
        /\ SetAggregates(procs)
        /\ lastOp' = "del"
        /\ UNCHANGED <<wrapper, loadRet, busesLayout, m_hasSidechain, workerVars,
                       bypassVars, auxVars>>

\* The list after ProcessorChain::exchangeProcessors(idxA, idxB): the swap and
\* the two setChainIndex calls.
Exchanged(procs, idxA, idxB) ==
    IF idxA > -1 /\ idxA < Len(procs) /\ idxB > -1 /\ idxB < Len(procs)
    THEN LET swapped == [procs EXCEPT ![idxA + 1] = procs[idxB + 1],
                                      ![idxB + 1] = procs[idxA + 1]]
             setA == [swapped EXCEPT ![idxA + 1].chainIdx = idxA]
         IN  [setA EXCEPT ![idxB + 1].chainIdx = idxB]
    ELSE procs

\* ProcessorChain::exchangeProcessors(idxA, idxB)
exchangeProcessors(idxA, idxB) ==
    /\ m_processors' = Exchanged(m_processors, idxA, idxB)
    /\ lastOp' = "exchange"
    /\ UNCHANGED <<wrapperVars, busesLayout, m_extraChannels, m_hasSidechain,
                   m_sidechainDisabled, latencySamples, m_supportsDoublePrecission,
                   m_tailSecs, workerVars, bypassVars, auxVars>>

\* ProcessorChain::prepareToPlay / releaseResources: every wrapper of the list.
AllPrepared(procs) == [i \in 1..Len(procs) |-> prepareToPlay(procs[i])]
AllReleased(procs) == [i \in 1..Len(procs) |-> releaseResources(procs[i])]

chainPrepareToPlay ==
    /\ m_processors' = AllPrepared(m_processors)
    /\ lastOp' = "prepare"
    /\ UNCHANGED <<wrapperVars, busesLayout, m_extraChannels,
                   m_hasSidechain, m_sidechainDisabled, latencySamples,
                   m_supportsDoublePrecission, m_tailSecs, workerVars, bypassVars, auxVars>>

chainReleaseResources ==
    /\ m_processors' = AllReleased(m_processors)
    /\ lastOp' = "release"
    /\ UNCHANGED <<wrapperVars, busesLayout, m_extraChannels,
                   m_hasSidechain, m_sidechainDisabled, latencySamples,
                   m_supportsDoublePrecission, m_tailSecs, workerVars, bypassVars, auxVars>>

\* ProcessorChain::clear: releaseResources(), then m_processors.clear(), which
\* destroys every wrapper of the list.  The aggregates are not written.
RECURSIVE UnloadAll(_, _, _)
UnloadAll(procs, i, count) ==
    IF i > Len(procs) THEN count
    ELSE UnloadAll(procs, i + 1, unload(procs[i], count).count)
ClearedLeft(procs) == {Destroyed(AllReleased(procs)[i]) : i \in 1..Len(procs)}

\* ProcessorChain::clear that releases the resources and leaves the list as
\* it is.
ChainReleasedOnly ==
    /\ m_processors' = AllReleased(m_processors)
    /\ UNCHANGED <<destroyed, loadedCount>>

\* What ProcessorChain::clear writes.
ChainCleared ==
    /\ m_processors' = <<>>
    /\ destroyed' = destroyed \cup ClearedLeft(m_processors)
    /\ loadedCount' = UnloadAll(AllReleased(m_processors), 1, loadedCount)

chainClear ==
    /\ ChainCleared
    /\ lastOp' = "clear"
    /\ UNCHANGED <<wrapper, loadRet, busesLayout, m_extraChannels, m_hasSidechain,
                   m_sidechainDisabled, latencySamples, m_supportsDoublePrecission,
                   m_tailSecs, workerVars, bypassVars, auxVars>>

\* ProcessorChain::update
chainUpdate ==
    /\ SetAggregates(m_processors)
    /\ lastOp' = "update"
    /\ UNCHANGED <<wrapperVars, m_processors, busesLayout, m_hasSidechain,
                   workerVars, bypassVars, auxVars>>

\* AGProcessor::suspendProcessing on the wrapper at idx (bypass on / off).
chainSuspend(idx, shouldBeSuspended) ==
    /\ idx + 1 \in 1..Len(m_processors)
    /\ m_processors[idx + 1].suspended # shouldBeSuspended
    /\ m_processors' = [m_processors EXCEPT
                          ![idx + 1] = suspendProcessing(@, shouldBeSuspended)]
    /\ lastOp' = "suspend"
    /\ UNCHANGED <<wrapperVars, busesLayout, m_extraChannels,
                   m_hasSidechain, m_sidechainDisabled, latencySamples,
                   m_supportsDoublePrecission, m_tailSecs, workerVars, bypassVars, auxVars>>

\* The ids the control side asks the chain to add.
ChainIds == {Flex, NoSC, Fixed, Mono, UnknownId}

ChainNext ==
    \/ \E id \in ChainIds, instOk \in BOOLEAN : addPluginProcessor(id, instOk)
    \/ \E idx \in -1..MaxChain : delProcessor(idx)
    \/ \E a, b \in -1..MaxChain : exchangeProcessors(a, b)
    \/ chainClear
    \/ chainUpdate
    \/ \E idx \in 0..(MaxChain - 1), b \in BOOLEAN : chainSuspend(idx, b)

\* The worker is not looked at.
InitNoWorker ==
    /\ pc = "start"
    /\ threadShouldExit = FALSE
    /\ connected = TRUE
    /\ cur = 0
    /\ curChannels = 0
    /\ readLog = <<>>
    /\ procLog = <<>>
    /\ sendLog = <<>>
    /\ endCause = "none"
    /\ activeInputs = 0
    /\ atShutdown = NotShutDown
    /\ exitCleared = -1

InitChainSpec == InitWrappers /\ InitChain /\ InitNoWorker /\ InitNoBypass /\ InitNoAux
SpecChain == InitChainSpec /\ [][ChainNext]_vars

(***************************************************************************)
(* updateChannels on a chain that has processors.                          *)
(***************************************************************************)
\* The loop of updateChannels from wrapper i on: setProcessorBusesLayout for
\* each wrapper in turn, each call on the chain fields the one before left.
RECURSIVE UpdateChannelsLoop(_, _, _, _, _, _)
UpdateChannelsLoop(procs, i, cl, hasSC, scd, ec) ==
    IF i > Len(procs) THEN [procs |-> procs, scd |-> scd, ec |-> ec]
    ELSE LET r == setProcessorBusesLayout(procs[i], cl, hasSC, scd, ec)
         IN  UpdateChannelsLoop([procs EXCEPT ![i] = r.w], i + 1, cl, hasSC, r.scd, r.ec)

\* ProcessorChain::updateChannels(channelsIn, channelsOut, channelsSC); the
\* chain's own setBusesLayout takes the layout.
updateChannels(channelsIn, channelsOut, channelsSC) ==
    LET layout == ChannelsLayout(channelsIn, channelsOut, channelsSC)
        u == UpdateChannelsLoop(m_processors, 1, layout, channelsSC > 0, FALSE, 0)
    IN  /\ busesLayout' = layout
        /\ m_hasSidechain' = (channelsSC > 0)
        /\ m_processors' = u.procs
        /\ m_sidechainDisabled' = u.scd
        /\ m_extraChannels' = u.ec
        /\ lastOp' = "updateChannels"
        /\ UNCHANGED <<wrapperVars, latencySamples, m_supportsDoublePrecission,
                       m_tailSecs, workerVars, bypassVars, auxVars>>

\* The channel counts a session asks for.
SessionIns == 0..3
SessionOuts == 1..2
SessionSCs == 0..3

ChannelsNext ==
    \/ \E id \in ChainIds, instOk \in BOOLEAN : addPluginProcessor(id, instOk)
    \/ \E channelsIn \in SessionIns, channelsOut \in SessionOuts,
          channelsSC \in SessionSCs :
          updateChannels(channelsIn, channelsOut, channelsSC)

SpecChannels == InitChainSpec /\ [][ChannelsNext]_vars

(***************************************************************************)
(* AudioWorker.  run() is followed step by step; pc names the next step.   *)
(***************************************************************************)
chainOnly == <<busesLayout, m_extraChannels, m_hasSidechain, m_sidechainDisabled,
               latencySamples, m_supportsDoublePrecission, m_tailSecs, lastOp>>

\* AudioWorker::isOk: the thread was not asked to exit and the socket is
\* connected.
isOk == ~threadShouldExit /\ connected

\* run(): m_chain->prepareToPlay(m_rate, m_samplesPerBlock) before the loop.
workerStart ==
    /\ pc = "start"
    /\ m_processors' = AllPrepared(m_processors)
    /\ pc' = "top"
    /\ UNCHANGED <<wrapperVars, chainOnly, bypassVars, auxVars, threadShouldExit, connected,
                   cur, curChannels, readLog, procLog, sendLog, endCause, activeInputs,
                   atShutdown, exitCleared>>

\* while (isOk())
workerLoopTop ==
    /\ pc = "top"
    /\ pc' = IF isOk THEN "wait" ELSE "epilogue"
    /\ UNCHANGED <<wrapperVars, chainVars, bypassVars, auxVars, threadShouldExit, connected,
                   cur, curChannels, readLog, procLog, sendLog, endCause, activeInputs,
                   atShutdown, exitCleared>>

\* AudioWorker::waitForData: waitUntilReady(true, 50) under m_mtx; false after
\* 50 ms without data.
workerWaitForData(ready) ==
    /\ pc = "wait"
    /\ pc' = IF ready THEN "read" ELSE "top"
    /\ UNCHANGED <<wrapperVars, chainVars, bypassVars, auxVars, threadShouldExit, connected,
                   cur, curChannels, readLog, procLog, sendLog, endCause, activeInputs,
                   atShutdown, exitCleared>>

\* msg.readFromClient succeeds: the next block, with channels channels.
workerRead(channels) ==
    /\ pc = "read"
    /\ Len(readLog) < MaxBlocks
    /\ cur' = Len(readLog) + 1
    /\ curChannels' = channels
    /\ readLog' = Append(readLog, Len(readLog) + 1)
    /\ pc' = "validate"
    /\ UNCHANGED <<wrapperVars, chainVars, bypassVars, auxVars, threadShouldExit, connected,
                   procLog, sendLog, endCause, activeInputs, atShutdown, exitCleared>>

\* msg.readFromClient fails (the client is gone, a broken frame):
\* "error: failed to read audio message", m_socket->close().
workerReadFailed ==
    /\ pc = "read"
    /\ connected' = FALSE
    /\ endCause' = "read"
    /\ pc' = "top"
    /\ UNCHANGED <<wrapperVars, chainVars, bypassVars, auxVars, threadShouldExit,
                   cur, curChannels, readLog, procLog, sendLog, activeInputs,
                   atShutdown, exitCleared>>

\* workerValidate without the break: the mismatch is logged, the socket closed,
\* and the block processed all the same.
workerValidateNoBreak ==
    /\ pc = "validate"
    /\ IF activeInputs > curChannels
       THEN /\ m_processors' = AllReleased(m_processors)
            /\ connected' = FALSE
            /\ endCause' = "mismatch"
       ELSE UNCHANGED <<m_processors, connected, endCause>>
    /\ pc' = "process"
    /\ UNCHANGED <<wrapperVars, chainOnly, bypassVars, auxVars, threadShouldExit,
                   cur, curChannels, readLog, procLog, sendLog, activeInputs,
                   atShutdown, exitCleared>>

\* The channel check: neededChannels > bufferChannels releases the chain's
\* resources, closes the socket and leaves the loop.
workerValidate ==
    /\ pc = "validate"
    /\ IF activeInputs > curChannels
       THEN /\ m_processors' = AllReleased(m_processors)
            /\ connected' = FALSE
            /\ endCause' = "mismatch"
            /\ pc' = "epilogue"
       ELSE /\ pc' = "process"
            /\ UNCHANGED <<m_processors, connected, endCause>>
    /\ UNCHANGED <<wrapperVars, chainOnly, bypassVars, auxVars, threadShouldExit,
                   cur, curChannels, readLog, procLog, sendLog, activeInputs,
                   atShutdown, exitCleared>>

\* workerProcess with the response forgotten: the loop goes on to the next block.
workerProcessNoResponse ==
    /\ pc = "process"
    /\ procLog' = Append(procLog, cur)
    /\ pc' = "top"
    /\ UNCHANGED <<wrapperVars, chainVars, bypassVars, auxVars, threadShouldExit, connected,
                   cur, curChannels, readLog, sendLog, endCause, activeInputs,
                   atShutdown, exitCleared>>

\* processBlock(buffer, midi): the block goes through the chain.
workerProcess ==
    /\ pc = "process"
    /\ procLog' = Append(procLog, cur)
    /\ pc' = "send"
    /\ UNCHANGED <<wrapperVars, chainVars, bypassVars, auxVars, threadShouldExit, connected,
                   cur, curChannels, readLog, sendLog, endCause, activeInputs,
                   atShutdown, exitCleared>>

\* workerSend that looks at the exit flag first and drops the response of a
\* worker asked to exit.
workerSendUnlessExiting(sendOk) ==
    /\ pc = "send"
    /\ sendLog' = IF threadShouldExit THEN sendLog ELSE Append(sendLog, <<cur, sendOk>>)
    /\ connected' = IF sendOk \/ threadShouldExit THEN connected ELSE FALSE
    /\ endCause' = IF sendOk \/ threadShouldExit THEN endCause ELSE "write"
    /\ cur' = 0
    /\ pc' = "top"
    /\ UNCHANGED <<wrapperVars, chainVars, bypassVars, auxVars, threadShouldExit,
                   curChannels, readLog, procLog, activeInputs, atShutdown,
                   exitCleared>>

\* msg.sendToClient: the response is written (sendOk) or the write fails, and
\* then the socket is closed.
workerSend(sendOk) ==
    /\ pc = "send"
    /\ sendLog' = Append(sendLog, <<cur, sendOk>>)
    /\ connected' = IF sendOk THEN connected ELSE FALSE
    /\ endCause' = IF sendOk THEN endCause ELSE "write"
    /\ cur' = 0
    /\ pc' = "top"
    /\ UNCHANGED <<wrapperVars, chainVars, bypassVars, auxVars, threadShouldExit,
                   curChannels, readLog, procLog, activeInputs, atShutdown,
                   exitCleared>>

\* After the loop: setPlayHead(nullptr), clear(), signalThreadShouldExit(),
\* and run returns.
workerEpilogue ==
    /\ pc = "epilogue"
    /\ ChainCleared
    /\ exitCleared' = Len(m_processors)
    /\ threadShouldExit' = TRUE
    /\ pc' = "done"
    /\ UNCHANGED <<wrapper, loadRet, chainOnly, bypassVars, auxVars, connected,
                   cur, curChannels, readLog, procLog, sendLog, endCause, activeInputs,
                   atShutdown>>

\* AudioWorker::shutdown, from another thread.
workerShutdown ==
    /\ atShutdown = NotShutDown
    /\ pc # "done"
    /\ threadShouldExit' = TRUE
    /\ atShutdown' = [pc |-> pc, cur |-> cur, reads |-> Len(readLog)]
    /\ UNCHANGED <<wrapperVars, chainVars, bypassVars, auxVars, pc, connected,
                   cur, curChannels, readLog, procLog, sendLog, endCause, activeInputs,
                   exitCleared>>

\* One step of the worker thread.
WorkerStep ==
    \/ workerStart
    \/ workerLoopTop
    \/ \E ready \in BOOLEAN : workerWaitForData(ready)
    \/ \E channels \in 1..MaxBufChannels : workerRead(channels)
    \/ workerReadFailed
    \/ workerValidate
    \/ workerProcess
    \/ \E sendOk \in BOOLEAN : workerSend(sendOk)
    \/ workerEpilogue

\* The ids the control thread asks the worker to add.
WorkerIds == {Flex, UnknownId}

\* AudioWorker::addPlugin, delPlugin, exchangePlugins and shutdown, called by
\* the control thread while the worker runs.
ControlStep ==
    \/ \E id \in WorkerIds : addPluginProcessor(id, TRUE)
    \/ \E idx \in 0..(MaxChain - 1) : delProcessor(idx)
    \/ workerShutdown

WorkerNext == WorkerStep \/ ControlStep

InitWorkerSpec == InitWrappers /\ InitChain /\ InitWorker /\ InitNoBypass /\ InitNoAux
SpecWorker == InitWorkerSpec /\ [][WorkerNext]_vars
\* The worker thread is scheduled: a step of run() that can be taken is taken.
SpecWorkerFair == SpecWorker /\ WF_vars(WorkerStep)

(***************************************************************************)
(* One AGProcessor of its own, as a caller that holds it sees it: it is    *)
(* constructed on the chain, loaded, prepared, released, suspended,        *)
(* unloaded and destroyed.  lastOp is "reload" after a load() that found   *)
(* the plugin already there.                                               *)
(***************************************************************************)
chainRest == <<m_processors, busesLayout, m_hasSidechain, latencySamples,
               m_supportsDoublePrecission, m_tailSecs>>

wrapperConstruct(id) ==
    /\ ~wrapper.alive
    /\ wrapper' = NewWrapper(id)
    /\ lastOp' = "construct"
    /\ UNCHANGED <<destroyed, loadedCount, loadRet, chainRest, m_extraChannels,
                   m_sidechainDisabled, workerVars, bypassVars, auxVars>>

wrapperLoad(instOk) ==
    /\ wrapper.alive
    /\ LET l == load(wrapper, instOk, busesLayout, m_hasSidechain,
                     m_sidechainDisabled, m_extraChannels, loadedCount)
       IN  /\ wrapper' = l.w
           /\ loadedCount' = l.count
           /\ m_extraChannels' = l.ec
           /\ m_sidechainDisabled' = l.scd
           /\ loadRet' = Returned(l.ret)
    /\ lastOp' = IF wrapper.plugin # NoPlugin THEN "reload" ELSE "load"
    /\ UNCHANGED <<destroyed, chainRest, workerVars, bypassVars, auxVars>>

wrapperUnload ==
    /\ wrapper.alive
    /\ wrapper' = unload(wrapper, loadedCount).w
    /\ loadedCount' = unload(wrapper, loadedCount).count
    /\ lastOp' = "unload"
    /\ UNCHANGED <<destroyed, loadRet, chainRest, m_extraChannels,
                   m_sidechainDisabled, workerVars, bypassVars, auxVars>>

wrapperPrepareToPlay ==
    /\ wrapper.alive
    /\ wrapper' = prepareToPlay(wrapper)
    /\ lastOp' = "prepare"
    /\ UNCHANGED <<destroyed, loadedCount, loadRet, chainRest, m_extraChannels,
                   m_sidechainDisabled, workerVars, bypassVars, auxVars>>

wrapperReleaseResources ==
    /\ wrapper.alive
    /\ wrapper' = releaseResources(wrapper)
    /\ lastOp' = "release"
    /\ UNCHANGED <<destroyed, loadedCount, loadRet, chainRest, m_extraChannels,
                   m_sidechainDisabled, workerVars, bypassVars, auxVars>>

wrapperSuspend(shouldBeSuspended) ==
    /\ wrapper.alive
    /\ wrapper' = suspendProcessing(wrapper, shouldBeSuspended)
    /\ lastOp' = "suspend"
    /\ UNCHANGED <<destroyed, loadedCount, loadRet, chainRest, m_extraChannels,
                   m_sidechainDisabled, workerVars, bypassVars, auxVars>>

\* ~AGProcessor
wrapperDestroy ==
    /\ wrapper.alive
    /\ wrapper' = Dead
    /\ destroyed' = destroyed \cup {Destroyed(wrapper)}
    /\ loadedCount' = unload(wrapper, loadedCount).count
    /\ lastOp' = "destroy"
    /\ UNCHANGED <<loadRet, chainRest, m_extraChannels, m_sidechainDisabled,
                   workerVars, bypassVars, auxVars>>

WrapperNext ==
    \/ \E id \in PluginIds : wrapperConstruct(id)
    \/ \E instOk \in BOOLEAN : wrapperLoad(instOk)
    \/ wrapperUnload
    \/ wrapperPrepareToPlay
    \/ wrapperReleaseResources
    \/ \E b \in BOOLEAN : wrapperSuspend(b)
    \/ wrapperDestroy

InitWrapperSpec == InitWrappers /\ InitChain /\ InitNoWorker /\ InitNoBypass /\ InitNoAux
SpecWrapper == InitWrapperSpec /\ [][WrapperNext]_vars

(***************************************************************************)
(* The bypass path of one suspended wrapper.  A buffer is a sequence of    *)
(* channels, a channel a sequence of samples.                              *)
(***************************************************************************)
Zeros(n) == [i \in 1..n |-> 0]

\* The sample loop giving back the sample it has just added.
RECURSIVE FifoRunReadLast(_, _, _, _)
FifoRunReadLast(buf, samples, s, out) ==
    IF s > Len(samples) THEN [buf |-> buf, out |-> out]
    ELSE FifoRunReadLast(Tail(Append(buf, samples[s])), samples, s + 1,
                         Append(out, samples[s]))

\* The sample loop of processBlockBypassed on one channel: buf.add(sample),
\* setSample(buf.getFirst()), buf.remove(0).
RECURSIVE FifoRun(_, _, _, _)
FifoRun(buf, samples, s, out) ==
    IF s > Len(samples) THEN [buf |-> buf, out |-> out]
    ELSE FifoRun(Tail(Append(buf, samples[s])), samples, s + 1,
                 Append(out, Head(Append(buf, samples[s]))))

\* AGProcessor::processBlockBypassed(buffer) with the FIFOs fifos, on a chain
\* with totalIn input and totalOut output channels: the buffer and the FIFOs
\* afterwards.
processBlockBypassed(buffer, fifos, totalIn, totalOut) ==
    LET nch == Len(buffer)
        totalNumInputChannels == Min2(totalIn, nch)
        totalNumOutputChannels == Min2(totalOut, nch)
        cleared == [c \in 1..nch |->
                      IF c > totalNumInputChannels /\ c <= totalNumOutputChannels
                      THEN Zeros(Len(buffer[c])) ELSE buffer[c]]
    IN  IF Len(fifos) < totalNumOutputChannels
        THEN \* "bypass buffer has less channels than needed"
             [buffer |-> [c \in 1..nch |->
                            IF c <= totalNumOutputChannels
                            THEN Zeros(Len(buffer[c])) ELSE cleared[c]],
              fifos |-> fifos]
        ELSE [buffer |-> [c \in 1..nch |->
                            IF c <= totalNumOutputChannels
                            THEN FifoRun(fifos[c], cleared[c], 1, <<>>).out
                            ELSE cleared[c]],
              fifos |-> [c \in 1..Len(fifos) |->
                            IF c <= totalNumOutputChannels
                            THEN FifoRun(fifos[c], cleared[c], 1, <<>>).buf
                            ELSE fifos[c]]]

\* One FIFO after the two while loops of updateLatencyBuffers.
Resized(buf, latency) ==
    IF Len(buf) > latency
    THEN SubSeq(buf, Len(buf) - latency + 1, Len(buf))
    ELSE buf \o Zeros(latency - Len(buf))

\* AGProcessor::updateLatencyBuffers on one of the two sets of FIFOs, for a
\* plugin with channels output channels.
updateLatencyBuffers(fifos, channels, latency) ==
    LET grown == IF Len(fifos) < channels
                 THEN fifos \o [i \in 1..(channels - Len(fifos)) |-> Zeros(latency)]
                 ELSE fifos
    IN  [c \in 1..Len(grown) |->
            IF c <= channels THEN Resized(grown[c], latency) ELSE grown[c]]

\* p->getTotalNumOutputChannels() of the wrapper's plugin.
PluginOutputs(r) == SumFrom(r.layout.outs, 1)

\* The channel counts the model draws from:
\* <<chain inputs, chain outputs, plugin outputs>>.
BypassConfigs == {<<2, 2, 2>>, <<1, 2, 2>>, <<2, 1, 1>>, <<2, 2, 1>>}
BypassChannels == {1, 2}
Samples == {0, 1}
NoHistory == [c \in BypassChannels |-> <<>>]

\* The samples the bypass path saw and gave back on the channels of a buffer.
Grown(hist, buffer) ==
    [c \in BypassChannels |-> IF c <= Len(buffer) THEN hist[c] \o buffer[c] ELSE hist[c]]

bypassUpdateLatencyBuffers ==
    /\ m_bypassBufferF' = updateLatencyBuffers(m_bypassBufferF, PluginOutputs(wrapper),
                                               m_lastKnownLatency)
    /\ m_bypassBufferD' = updateLatencyBuffers(m_bypassBufferD, PluginOutputs(wrapper),
                                               m_lastKnownLatency)
    /\ IF m_bypassBufferF' # m_bypassBufferF \/ m_bypassBufferD' # m_bypassBufferD
       THEN /\ inHistF' = NoHistory /\ outHistF' = NoHistory
            /\ inHistD' = NoHistory /\ outHistD' = NoHistory
       ELSE UNCHANGED <<inHistF, outHistF, inHistD, outHistD>>
    /\ UNCHANGED <<wrapperVars, chainVars, workerVars, auxVars, m_lastKnownLatency, chainIn,
                   chainOut>>

\* The buffers of n samples on nch channels.
Buffers(nch, n) == [1..nch -> [1..n -> Samples]]
Used == Len(inHistF[1]) + Len(inHistD[1])

\* processBlockBypassed(AudioBuffer<float>&)
bypassFloat(buffer) ==
    /\ LET res == processBlockBypassed(buffer, m_bypassBufferF, chainIn, chainOut)
       IN  /\ m_bypassBufferF' = res.fifos
           /\ inHistF' = Grown(inHistF, buffer)
           /\ outHistF' = Grown(outHistF, res.buffer)
    /\ UNCHANGED <<wrapperVars, chainVars, workerVars, auxVars, m_lastKnownLatency,
                   m_bypassBufferD, chainIn, chainOut, inHistD, outHistD>>

\* processBlockBypassed(AudioBuffer<double>&)
bypassDouble(buffer) ==
    /\ LET res == processBlockBypassed(buffer, m_bypassBufferD, chainIn, chainOut)
       IN  /\ m_bypassBufferD' = res.fifos
           /\ inHistD' = Grown(inHistD, buffer)
           /\ outHistD' = Grown(outHistD, res.buffer)
    /\ UNCHANGED <<wrapperVars, chainVars, workerVars, auxVars, m_lastKnownLatency,
                   m_bypassBufferF, chainIn, chainOut, inHistF, outHistF>>

BypassNext ==
    \/ bypassUpdateLatencyBuffers
    \/ \E nch \in BypassChannels, n \in 1..(MaxSamples - Used) :
          \E buffer \in Buffers(nch, n) : bypassFloat(buffer)
    \/ \E nch \in BypassChannels, n \in 1..(MaxSamples - Used) :
          \E buffer \in Buffers(nch, n) : bypassDouble(buffer)

\* A suspended wrapper that holds a plugin with outs output channels.
BypassedWrapper(outs) ==
    [NewWrapper(Flex) EXCEPT !.plugin = Flex, !.suspended = TRUE,
                             !.layout = Layout(<<outs>>, <<outs>>)]

InitBypass ==
    /\ \E c \in BypassConfigs :
          /\ chainIn = c[1]
          /\ chainOut = c[2]
          /\ wrapper = BypassedWrapper(c[3])
    /\ m_lastKnownLatency \in 0..MaxLatency
    /\ m_bypassBufferF = <<>>
    /\ m_bypassBufferD = <<>>
    /\ inHistF = NoHistory /\ outHistF = NoHistory
    /\ inHistD = NoHistory /\ outHistD = NoHistory
    /\ destroyed = {}
    /\ loadedCount = 1
    /\ loadRet = "true"

InitBypassSpec == InitBypass /\ InitChain /\ InitNoWorker /\ InitNoAux
SpecBypass == InitBypassSpec /\ [][BypassNext]_vars

(***************************************************************************)
(* The same wrapper while its plugin reports new latencies and the chain's *)
(* channels change.                                                        *)
(***************************************************************************)
\* The plugin reports the latency l, kept in m_lastKnownLatency.
latencyReported(l) ==
    /\ l # m_lastKnownLatency
    /\ m_lastKnownLatency' = l
    /\ UNCHANGED <<wrapperVars, chainVars, workerVars, auxVars, m_bypassBufferF,
                   m_bypassBufferD, chainIn, chainOut, inHistF, outHistF, inHistD,
                   outHistD>>

\* ProcessorChain::updateChannels(channels, channels, 0) with the wrapper in
\* the chain: setProcessorBusesLayout gives the plugin its new layout.
bypassUpdateChannels(channels) ==
    /\ chainOut # channels
    /\ chainIn' = channels
    /\ chainOut' = channels
    /\ wrapper' = setProcessorBusesLayout(wrapper, ChannelsLayout(channels, channels, 0),
                                          FALSE, FALSE, 0).w
    /\ inHistF' = NoHistory /\ outHistF' = NoHistory
    /\ inHistD' = NoHistory /\ outHistD' = NoHistory
    /\ UNCHANGED <<destroyed, loadedCount, loadRet, chainVars, workerVars, auxVars,
                   m_lastKnownLatency, m_bypassBufferF, m_bypassBufferD>>

\* The silent buffer of n samples on nch channels.
Silence(nch, n) == [c \in 1..nch |-> Zeros(n)]

LatencyNext ==
    \/ bypassUpdateLatencyBuffers
    \/ \E nch \in BypassChannels, n \in 1..(MaxSamples - Used) :
          bypassFloat(Silence(nch, n))
    \/ \E nch \in BypassChannels, n \in 1..(MaxSamples - Used) :
          bypassDouble(Silence(nch, n))
    \/ \E l \in 0..MaxLatency : latencyReported(l)
    \/ \E channels \in BypassChannels : bypassUpdateChannels(channels)

SpecLatency == InitBypassSpec /\ [][LatencyNext]_vars

(***************************************************************************)
(* A chain whose wrappers are all suspended: every block goes through the  *)
(* bypass path of each wrapper in turn.  The chain is built and suspended   *)
(* before the first block, and the blocks looked at are those that find    *)
(* every wrapper suspended with updateLatencyBuffers done.                 *)
(***************************************************************************)
\* The plugins of the bypassed chains: one that takes the chain's layout and one
\* that keeps its own mono layout.
BypassKinds == {Flex, Mono}

\* ProcessorChain::processBlockReal from wrapper i on: a suspended wrapper
\* takes the bypass path with its own FIFOs; a plugin that runs is external
\* code and is taken to leave the buffer as it is.
RECURSIVE processBlockReal(_, _, _, _, _, _)
processBlockReal(procs, fifos, i, buffer, totalIn, totalOut) ==
    IF i > Len(procs) THEN [buffer |-> buffer, fifos |-> fifos]
    ELSE IF isSuspended(procs[i])
    THEN LET res == processBlockBypassed(buffer, fifos[i], totalIn, totalOut)
         IN  processBlockReal(procs, [fifos EXCEPT ![i] = res.fifos], i + 1,
                              res.buffer, totalIn, totalOut)
    ELSE processBlockReal(procs, fifos, i + 1, buffer, totalIn, totalOut)

\* updateLatencyBuffers has run on wrapper i of the chain.
LatencyBuffersReady(i) ==
    /\ Len(bypassBuffers[i]) = PluginOutputs(m_processors[i])
    /\ \A c \in 1..Len(bypassBuffers[i]) :
          Len(bypassBuffers[i][c]) = lastKnownLatencies[i]

\* AGProcessor::updateLatencyBuffers on wrapper i of the chain.
chainUpdateLatencyBuffers(i) ==
    /\ i \in 1..Len(m_processors)
    /\ bypassBuffers' =
          [bypassBuffers EXCEPT ![i] =
              updateLatencyBuffers(@, PluginOutputs(m_processors[i]),
                                   lastKnownLatencies[i])]
    /\ UNCHANGED <<wrapperVars, chainVars, workerVars, bypassVars, lastKnownLatencies,
                   loaderVars, recentsVars, idVars, lockVars>>

\* ProcessorChain::processBlock(AudioBuffer<float>&) on the bypassed chain.
chainProcessBlock(buffer) ==
    /\ \A i \in 1..Len(m_processors) :
          isSuspended(m_processors[i]) /\ LatencyBuffersReady(i)
    /\ LET res == processBlockReal(m_processors, bypassBuffers, 1, buffer,
                                   chainIn, chainOut)
       IN  /\ bypassBuffers' = res.fifos
           /\ inHistF' = Grown(inHistF, buffer)
           /\ outHistF' = Grown(outHistF, res.buffer)
    /\ UNCHANGED <<wrapperVars, chainVars, workerVars, lastKnownLatencies, loaderVars, recentsVars, idVars, lockVars,
                   m_lastKnownLatency, m_bypassBufferF, m_bypassBufferD, chainIn,
                   chainOut, inHistD, outHistD>>

\* ProcessorChain::addPluginProcessor(id) before the first block, for a plugin
\* that reports the latency given.
bypassAddPlugin(id, latency) ==
    /\ Len(m_processors) < MaxChain
    /\ inHistF[1] = <<>>
    /\ LET l == load(NewWrapper(id), TRUE, busesLayout, m_hasSidechain,
                     m_sidechainDisabled, m_extraChannels, loadedCount)
       IN  /\ loadRet' = Returned(l.ret)
           /\ m_processors' = addProcessor(m_processors, l.w)
           /\ loadedCount' = l.count
           /\ SetAggregates(addProcessor(m_processors, l.w))
    /\ lastKnownLatencies' = Append(lastKnownLatencies, latency)
    /\ bypassBuffers' = Append(bypassBuffers, <<>>)
    /\ lastOp' = "add"
    /\ UNCHANGED <<wrapper, destroyed, busesLayout, m_hasSidechain, workerVars,
                   bypassVars, loaderVars, recentsVars, idVars, lockVars>>

ChainBypassNext ==
    \/ \E id \in BypassKinds, latency \in 0..MaxLatency : bypassAddPlugin(id, latency)
    \/ \E idx \in 0..(MaxChain - 1) : inHistF[1] = <<>> /\ chainSuspend(idx, TRUE)
    \/ \E i \in 1..MaxChain : chainUpdateLatencyBuffers(i)
    \/ \E nch \in BypassChannels, n \in 1..(MaxSamples - Len(inHistF[1])) :
          \E buffer \in Buffers(nch, n) : chainProcessBlock(buffer)

\* The chain as AudioWorker::init leaves it, no block seen yet.
InitChainBypass ==
    /\ InitWrappers
    /\ InitChain
    /\ lastKnownLatencies = <<>>
    /\ bypassBuffers = <<>>
    /\ chainIn = SumFrom(busesLayout.ins, 1)
    /\ chainOut = SumFrom(busesLayout.outs, 1)
    /\ m_lastKnownLatency = 0
    /\ m_bypassBufferF = <<>>
    /\ m_bypassBufferD = <<>>
    /\ inHistF = NoHistory /\ outHistF = NoHistory
    /\ inHistD = NoHistory /\ outHistD = NoHistory

InitChainBypassSpec ==
    InitChainBypass /\ InitNoWorker /\ InitNoLoader /\ InitNoRecents /\ InitNoIds
    /\ InitNoLocks
SpecChainBypass == InitChainBypassSpec /\ [][ChainBypassNext]_vars

(***************************************************************************)
(* Threads that call load() and unload() on wrappers, step by step, with   *)
(* the loader mutex, the shared handles of the plugin instances and the    *)
(* message thread that runs the deleter's callAsync.  A handle is the      *)
(* number of the instance it points to, 0 for nullptr.                     *)
(***************************************************************************)
MaxInstances == 2
LoaderThreads == {1, 2}
LoaderWrappers == {1, 2}

notLoader ==
    <<wrapperVars, chainVars, workerVars, bypassVars, chainBypassVars, recentsVars, idVars,
      lockVars>>

\* The handles to instance i among the members pl, the locals loc and the
\* in-flight handle h: its shared_ptr use count.
Refs(i, pl, loc, h) ==
    Cardinality({w \in LoaderWrappers : pl[w] = i})
    + Cardinality({t \in LoaderThreads : loc[t] = i})
    + (IF h = i THEN 1 ELSE 0)

\* The deleter given to the shared_ptr in loadPlugin: when the last handle to
\* an instance goes, delete is posted to the message thread.
Released(pl, loc, h) ==
    {i \in 1..created : Refs(i, m_plugin, lp, held) > 0 /\ Refs(i, pl, loc, h) = 0}
PostDeletes(pl, loc, h) ==
    msgQueue' = IF Released(pl, loc, h) # {}
                THEN Append(msgQueue, CHOOSE i \in Released(pl, loc, h) : TRUE)
                ELSE msgQueue

\* load(): p = m_plugin under m_pluginMtx; with a plugin there is nothing to do.
loadBegin(t, w) ==
    /\ lpc[t] = "idle"
    /\ lwr' = [lwr EXCEPT ![t] = w]
    /\ lp' = [lp EXCEPT ![t] = m_plugin[w]]
    /\ lpc' = [lpc EXCEPT ![t] = IF m_plugin[w] = 0 THEN "loadLock" ELSE "loadReturn"]
    /\ lres' = [lres EXCEPT ![t] = IF m_plugin[w] = 0 THEN "" ELSE "present"]
    /\ UNCHANGED <<notLoader, m_parallelLoadAllowed, m_pluginLoaderMtx, m_plugin, held,
                   created, msgQueue, deletes>>

\* if (!m_parallelLoadAllowed) m_pluginLoaderMtx.lock(), taken without waiting.
loadLockNoWait(t) ==
    /\ lpc[t] = "loadLock"
    /\ m_pluginLoaderMtx' = IF m_parallelLoadAllowed THEN m_pluginLoaderMtx ELSE t
    /\ lpc' = [lpc EXCEPT ![t] = "loadPlugin"]
    /\ UNCHANGED <<notLoader, m_parallelLoadAllowed, lwr, lp, lres, m_plugin, held,
                   created, msgQueue, deletes>>

\* if (!m_parallelLoadAllowed) m_pluginLoaderMtx.lock()
loadLock(t) ==
    /\ lpc[t] = "loadLock"
    /\ m_parallelLoadAllowed \/ m_pluginLoaderMtx = 0
    /\ m_pluginLoaderMtx' = IF m_parallelLoadAllowed THEN m_pluginLoaderMtx ELSE t
    /\ lpc' = [lpc EXCEPT ![t] = "loadPlugin"]
    /\ UNCHANGED <<notLoader, m_parallelLoadAllowed, lwr, lp, lres, m_plugin, held,
                   created, msgQueue, deletes>>

\* p = loadPlugin(m_id, ...): the id is not in the catalog, createPluginInstance
\* fails, or a new instance comes back and m_plugin = p (under m_pluginMtx).
loadPluginStep(t, outcome) ==
    /\ lpc[t] = "loadPlugin"
    /\ outcome = "created" => created < MaxInstances
    /\ IF outcome = "created"
       THEN /\ created' = created + 1
            /\ lp' = [lp EXCEPT ![t] = created + 1]
            /\ m_plugin' = [m_plugin EXCEPT ![lwr[t]] = created + 1]
            /\ PostDeletes(m_plugin', lp', held)
            /\ lpc' = [lpc EXCEPT ![t] = "loadInit"]
            /\ UNCHANGED lres
       ELSE /\ lres' = [lres EXCEPT ![t] = outcome]
            /\ lpc' = [lpc EXCEPT ![t] = "loadUnlock"]
            /\ UNCHANGED <<created, lp, m_plugin, msgQueue>>
    /\ UNCHANGED <<notLoader, m_parallelLoadAllowed, m_pluginLoaderMtx, lwr, held,
                   deletes>>

\* What a load() or unload() step that counts leaves alone outside the loader.
notLoaderCount ==
    <<wrapper, destroyed, loadRet, chainVars, workerVars, bypassVars, chainBypassVars,
      recentsVars, idVars, lockVars>>

\* m_chain.initPluginInstance(this, err): it fails when proc->getPlugin() is
\* null, and then m_plugin.reset(); when it succeeds, loadedCount++.
\* loadedCount is the atomic_uint32_t read as a signed number: -1 is the
\* counter wrapped around below 0.
loadInit(t) ==
    /\ lpc[t] = "loadInit"
    /\ lres' = [lres EXCEPT ![t] = IF m_plugin[lwr[t]] = 0 THEN "initFailed" ELSE "loaded"]
    /\ loadedCount' = IF m_plugin[lwr[t]] = 0 THEN loadedCount ELSE loadedCount + 1
    /\ lpc' = [lpc EXCEPT ![t] = "loadUnlock"]
    /\ UNCHANGED <<notLoaderCount, m_parallelLoadAllowed, m_pluginLoaderMtx, lwr, lp,
                   m_plugin, held, created, msgQueue, deletes>>

\* if (!m_parallelLoadAllowed) m_pluginLoaderMtx.unlock()
loadUnlock(t) ==
    /\ lpc[t] = "loadUnlock"
    /\ m_pluginLoaderMtx' = IF m_parallelLoadAllowed THEN m_pluginLoaderMtx ELSE 0
    /\ lpc' = [lpc EXCEPT ![t] = "loadReturn"]
    /\ UNCHANGED <<notLoader, m_parallelLoadAllowed, lwr, lp, lres, m_plugin, held,
                   created, msgQueue, deletes>>

\* return loaded: the local p goes out of scope.
loadReturn(t) ==
    /\ lpc[t] = "loadReturn"
    /\ lp' = [lp EXCEPT ![t] = 0]
    /\ PostDeletes(m_plugin, lp', held)
    /\ lpc' = [lpc EXCEPT ![t] = "idle"]
    /\ lres' = [lres EXCEPT ![t] = ""]
    /\ lwr' = [lwr EXCEPT ![t] = 0]
    /\ UNCHANGED <<notLoader, m_parallelLoadAllowed, m_pluginLoaderMtx, m_plugin,
                   held, created, deletes>>

\* unload(): under m_pluginMtx, if m_plugin is there: p = m_plugin,
\* m_plugin.reset() and loadedCount--.
unloadBegin(t, w) ==
    /\ lpc[t] = "idle"
    /\ lwr' = [lwr EXCEPT ![t] = w]
    /\ lp' = [lp EXCEPT ![t] = m_plugin[w]]
    /\ m_plugin' = [m_plugin EXCEPT ![w] = 0]
    /\ loadedCount' = IF m_plugin[w] = 0 THEN loadedCount ELSE loadedCount - 1
    /\ lpc' = [lpc EXCEPT ![t] = "unloadLock"]
    /\ UNCHANGED <<notLoaderCount, m_parallelLoadAllowed, m_pluginLoaderMtx, lres, held,
                   created, msgQueue, deletes>>

\* if (!m_parallelLoadAllowed) m_pluginLoaderMtx.lock()
unloadLock(t) ==
    /\ lpc[t] = "unloadLock"
    /\ m_parallelLoadAllowed \/ m_pluginLoaderMtx = 0
    /\ m_pluginLoaderMtx' = IF m_parallelLoadAllowed THEN m_pluginLoaderMtx ELSE t
    /\ lpc' = [lpc EXCEPT ![t] = "unloadRelease"]
    /\ UNCHANGED <<notLoader, m_parallelLoadAllowed, lwr, lp, lres, m_plugin, held,
                   created, msgQueue, deletes>>

\* p.reset() that deletes the instance there and then.
unloadReleaseDeleting(t) ==
    /\ lpc[t] = "unloadRelease"
    /\ lp' = [lp EXCEPT ![t] = 0]
    /\ deletes' = [i \in DOMAIN deletes |-> IF i = lp[t] THEN deletes[i] + 1 ELSE deletes[i]]
    /\ lpc' = [lpc EXCEPT ![t] = "unloadUnlock"]
    /\ UNCHANGED <<notLoader, m_parallelLoadAllowed, m_pluginLoaderMtx, lwr, lres,
                   m_plugin, held, created, msgQueue>>

\* p.reset()
unloadRelease(t) ==
    /\ lpc[t] = "unloadRelease"
    /\ lp' = [lp EXCEPT ![t] = 0]
    /\ PostDeletes(m_plugin, lp', held)
    /\ lpc' = [lpc EXCEPT ![t] = "unloadUnlock"]
    /\ UNCHANGED <<notLoader, m_parallelLoadAllowed, m_pluginLoaderMtx, lwr, lres,
                   m_plugin, held, created, deletes>>

\* if (!m_parallelLoadAllowed) m_pluginLoaderMtx.unlock(), and unload returns.
unloadUnlock(t) ==
    /\ lpc[t] = "unloadUnlock"
    /\ m_pluginLoaderMtx' = IF m_parallelLoadAllowed THEN m_pluginLoaderMtx ELSE 0
    /\ lpc' = [lpc EXCEPT ![t] = "idle"]
    /\ lwr' = [lwr EXCEPT ![t] = 0]
    /\ UNCHANGED <<notLoader, m_parallelLoadAllowed, lp, lres, m_plugin, held,
                   created, msgQueue, deletes>>

\* A block or callback takes a handle with getPlugin(), and drops it.
blockGetPlugin(w) ==
    /\ held = 0
    /\ m_plugin[w] # 0
    /\ held' = m_plugin[w]
    /\ UNCHANGED <<notLoader, m_parallelLoadAllowed, m_pluginLoaderMtx, lpc, lwr, lp, lres,
                   m_plugin, created, msgQueue, deletes>>

blockDone ==
    /\ held # 0
    /\ held' = 0
    /\ PostDeletes(m_plugin, lp, 0)
    /\ UNCHANGED <<notLoader, m_parallelLoadAllowed, m_pluginLoaderMtx, lpc, lwr, lp, lres,
                   m_plugin, created, deletes>>

\* The message thread runs a posted [p] { delete p; }.
msgThreadDelete ==
    /\ msgQueue # <<>>
    /\ deletes' = [deletes EXCEPT ![Head(msgQueue)] = @ + 1]
    /\ msgQueue' = Tail(msgQueue)
    /\ UNCHANGED <<notLoader, m_parallelLoadAllowed, m_pluginLoaderMtx, lpc, lwr, lp, lres,
                   m_plugin, held, created>>

LoaderThreadStep(t) ==
    \/ \E w \in LoaderWrappers : loadBegin(t, w)
    \/ loadLock(t)
    \/ \E outcome \in {"notFound", "createFailed", "created"} : loadPluginStep(t, outcome)
    \/ loadInit(t)
    \/ loadUnlock(t)
    \/ loadReturn(t)
    \/ \E w \in LoaderWrappers : unloadBegin(t, w)
    \/ unloadLock(t)
    \/ unloadRelease(t)
    \/ unloadUnlock(t)

LoaderNext ==
    \/ \E t \in LoaderThreads : LoaderThreadStep(t)
    \/ \E w \in LoaderWrappers : blockGetPlugin(w)
    \/ blockDone
    \/ msgThreadDelete

InitLoader ==
    /\ m_parallelLoadAllowed \in BOOLEAN
    /\ m_pluginLoaderMtx = 0
    /\ lpc = [t \in LoaderThreads |-> "idle"]
    /\ lwr = [t \in LoaderThreads |-> 0]
    /\ lp = [t \in LoaderThreads |-> 0]
    /\ lres = [t \in LoaderThreads |-> ""]
    /\ m_plugin = [w \in LoaderWrappers |-> 0]
    /\ held = 0
    /\ created = 0
    /\ msgQueue = <<>>
    /\ deletes = [i \in 1..MaxInstances |-> 0]

InitLoaderSpec ==
    InitLoader /\ InitWrappers /\ InitNoChain /\ InitNoWorker /\ InitNoBypass
    /\ InitNoChainBypass /\ InitNoRecents /\ InitNoIds /\ InitNoLocks
SpecLoader == InitLoaderSpec /\ [][LoaderNext]_vars
\* The message thread runs what is posted to it.
SpecLoaderFair == SpecLoader /\ WF_vars(msgThreadDelete)

(***************************************************************************)
(* The recents lists, with threads that call addToRecentsList.             *)
(***************************************************************************)
DEFAULT_NUM_RECENTS == 2
RecentsThreads == {1, 2}
RecentsHosts == {"hostA", "hostB"}
RecentsIds == {Flex, NoSC, Mono, UnknownId}

notRecents ==
    <<wrapperVars, chainVars, workerVars, bypassVars, chainBypassVars, loaderVars, idVars,
      lockVars>>
NoCall == [pc |-> "idle", id |-> "", host |-> "", plug |-> NoPlugin]
NoAdd == [host |-> "", plug |-> NoPlugin, before |-> <<>>]

\* Array::removeAllInstancesOf(d)
removeAllInstancesOf(list, d) == SelectSeq(list, LAMBDA x : x # d)
\* Array::removeLast(n)
removeLast(list, n) == SubSeq(list, 1, Len(list) - n)

\* The locked part of addToRecentsList that does not remove the old entry.
InsertedKeepingOld(recents, plug) ==
    LET ins == <<plug>> \o recents
        toRemove == Len(ins) - DEFAULT_NUM_RECENTS
    IN  IF toRemove > 0 THEN removeLast(ins, toRemove) ELSE ins

\* The locked part of addToRecentsList on the list recents.
Inserted(recents, plug) ==
    LET ins == <<plug>> \o removeAllInstancesOf(recents, plug)
        toRemove == Len(ins) - DEFAULT_NUM_RECENTS
    IN  IF toRemove > 0 THEN removeLast(ins, toRemove) ELSE ins

\* addToRecentsList(id, host) is called.
recentsCall(t, id, host) ==
    /\ rpc[t].pc = "idle"
    /\ rpc' = [rpc EXCEPT ![t] = [pc |-> "find", id |-> id, host |-> host,
                                  plug |-> NoPlugin]]
    /\ UNCHANGED <<notRecents, m_recents, lastAdd>>

\* plug = findPluginDescritpion(id); with nullptr the call returns.
recentsFind(t) ==
    /\ rpc[t].pc = "find"
    /\ rpc' = [rpc EXCEPT ![t] =
                 IF findPluginDescritpion(rpc[t].id) = NoPlugin THEN NoCall
                 ELSE [@ EXCEPT !.pc = "insert",
                                !.plug = findPluginDescritpion(rpc[t].id)]]
    /\ UNCHANGED <<notRecents, m_recents, lastAdd>>

\* Under m_recentsMtx: removeAllInstancesOf, insert(0), removeLast.
recentsInsert(t) ==
    /\ rpc[t].pc = "insert"
    /\ m_recents' = [m_recents EXCEPT
                       ![rpc[t].host] = Inserted(m_recents[rpc[t].host], rpc[t].plug)]
    /\ lastAdd' = [host |-> rpc[t].host, plug |-> rpc[t].plug, before |-> m_recents]
    /\ rpc' = [rpc EXCEPT ![t] = NoCall]
    /\ UNCHANGED notRecents

RecentsNext ==
    \E t \in RecentsThreads :
        \/ \E id \in RecentsIds, host \in RecentsHosts : recentsCall(t, id, host)
        \/ recentsFind(t)
        \/ recentsInsert(t)

InitRecents ==
    /\ m_recents = [h \in RecentsHosts |-> <<>>]
    /\ rpc = [t \in RecentsThreads |-> NoCall]
    /\ lastAdd = NoAdd

InitRecentsSpec ==
    InitRecents /\ InitWrappers /\ InitChain /\ InitNoWorker /\ InitNoBypass
    /\ InitNoChainBypass /\ InitNoLoader /\ InitNoIds /\ InitNoLocks
SpecRecents == InitRecentsSpec /\ [][RecentsNext]_vars

(***************************************************************************)
(* Plugin ids.  A String is a sequence of characters.                      *)
(***************************************************************************)
MaxSegments == 5
MaxCatalog == 2

\* The characters in use, in the order of their code points.
AsciiOrder ==
    <<"-", "0", "1", "2", "3", "4", "5", "6", "7", "8", "9",
      "A", "B", "C", "D", "E", "F", "G", "H", "I", "J", "K", "L", "M",
      "N", "O", "P", "Q", "R", "S", "T", "U", "V", "W", "X", "Y", "Z",
      "a", "b", "c", "d", "e", "f", "g", "h", "i", "j", "k", "l", "m",
      "n", "o", "p", "q", "r", "s", "t", "u", "v", "w", "x", "y", "z">>
Ord(c) == CHOOSE i \in 1..Len(AsciiOrder) : AsciiOrder[i] = c

\* String::toLowerCase
toLowerCase(str) ==
    [i \in 1..Len(str) |->
        IF Ord(str[i]) >= Ord("A") /\ Ord(str[i]) <= Ord("Z")
        THEN AsciiOrder[Ord(str[i]) + (Ord("a") - Ord("A"))]
        ELSE str[i]]

\* String::indexOfChar(0, c) and String::lastIndexOfChar(c): 0-based, -1 if absent
indexOfChar(str, c) ==
    IF \E i \in 1..Len(str) : str[i] = c
    THEN (CHOOSE i \in 1..Len(str) :
              str[i] = c /\ \A j \in 1..(i - 1) : str[j] # c) - 1
    ELSE -1
lastIndexOfChar(str, c) ==
    IF \E i \in 1..Len(str) : str[i] = c
    THEN (CHOOSE i \in 1..Len(str) :
              str[i] = c /\ \A j \in (i + 1)..Len(str) : str[j] # c) - 1
    ELSE -1

\* String::substring(start, end) and String::substring(start), 0-based
substring(str, start, end) == SubSeq(str, start + 1, end)
substringFrom(str, start) == SubSeq(str, start + 1, Len(str))

\* String::toHexString of a non-negative number
HexChars ==
    <<"0", "1", "2", "3", "4", "5", "6", "7", "8", "9", "a", "b", "c", "d", "e", "f">>
RECURSIVE toHexString(_)
toHexString(n) ==
    IF n < Len(HexChars) THEN <<HexChars[n + 1]>>
    ELSE toHexString(n \div Len(HexChars)) \o <<HexChars[(n % Len(HexChars)) + 1]>>

AudioUnitTag == <<"A", "u", "d", "i", "o", "U", "n", "i", "t">>
VSTTag == <<"V", "S", "T">>
VST3Tag == <<"V", "S", "T", "3">>
FormatTags == {AudioUnitTag, VSTTag, VST3Tag}

\* createPluginID(d)
createPluginID(d) ==
    d.pluginFormatName \o <<"-">> \o d.name \o <<"-">> \o toHexString(d.deprecatedUid)

\* The loop over fileHash: TRUE if a character is not allowed.
NotHex(c) ==
    \/ Ord(c) < Ord("0")
    \/ (Ord(c) > Ord("9") /\ Ord(c) < Ord("a"))
    \/ Ord(c) > Ord("f")

\* convertJUCEtoAGPluginID without the loop over fileHash.
convertJUCEtoAGPluginIDAnyHash(id) ==
    LET pos1 == indexOfChar(id, "-")
        format == substring(id, 0, pos1)
        name1 == substringFrom(id, pos1 + 1)
        pos2 == lastIndexOfChar(name1, "-")
        pluginId == substringFrom(name1, pos2 + 1)
        name2 == substring(name1, 0, pos2)
        pos3 == lastIndexOfChar(name2, "-")
        name == substring(name2, 0, pos3)
    IN  IF pos1 = -1 THEN <<>>
        ELSE IF format \notin FormatTags THEN <<>>
        ELSE IF pos2 = -1 THEN <<>>
        ELSE IF pos3 = -1 THEN <<>>
        ELSE format \o <<"-">> \o name \o <<"-">> \o pluginId

\* convertJUCEtoAGPluginID(id); the empty String is <<>>.
convertJUCEtoAGPluginID(id) ==
    LET pos1 == indexOfChar(id, "-")
        format == substring(id, 0, pos1)
        name1 == substringFrom(id, pos1 + 1)
        pos2 == lastIndexOfChar(name1, "-")
        pluginId == substringFrom(name1, pos2 + 1)
        name2 == substring(name1, 0, pos2)
        pos3 == lastIndexOfChar(name2, "-")
        fileHash == toLowerCase(substringFrom(name2, pos3 + 1))
        name == substring(name2, 0, pos3)
    IN  IF pos1 = -1 THEN <<>>
        ELSE IF format \notin FormatTags THEN <<>>
        ELSE IF pos2 = -1 THEN <<>>
        ELSE IF pos3 = -1 THEN <<>>
        ELSE IF \E i \in 1..Len(fileHash) : NotHex(fileHash[i]) THEN <<>>
        ELSE format \o <<"-">> \o name \o <<"-">> \o pluginId

\* KnownPluginList::getTypeForFile(id): <<>> is nullptr
getTypeForFile(types, id) ==
    IF \E i \in 1..Len(types) : types[i].fileOrIdentifier = id
    THEN <<types[CHOOSE i \in 1..Len(types) :
                    /\ types[i].fileOrIdentifier = id
                    /\ \A j \in 1..(i - 1) : types[j].fileOrIdentifier # id]>>
    ELSE <<>>

\* The loop of findPluginDescritpion over the first n entries: the last match.
RECURSIVE FindLoop(_, _, _, _)
FindLoop(types, n, id, convertedId) ==
    IF n = 0 THEN <<>>
    ELSE IF createPluginID(types[n]) = id \/ createPluginID(types[n]) = convertedId
         THEN <<types[n]>>
         ELSE FindLoop(types, n - 1, id, convertedId)

\* findPluginDescritpion(id) on the catalog types; <<>> is nullptr.
findPluginDescritpionIn(types, id) ==
    LET plugdesc == FindLoop(types, Len(types), id, convertJUCEtoAGPluginID(id))
    IN  IF plugdesc = <<>> THEN getTypeForFile(types, id) ELSE plugdesc

\* ---- ids handed to convertJUCEtoAGPluginID: segments joined by '-'
IdSegments ==
    {AudioUnitTag, VSTTag, VST3Tag, <<"a", "b">>, <<"A", "b">>, <<"Z", "z">>, <<>>}

\* The pieces of str between its '-' characters.
RECURSIVE Segments(_)
Segments(str) ==
    IF indexOfChar(str, "-") = -1 THEN <<str>>
    ELSE <<substring(str, 0, indexOfChar(str, "-"))>>
             \o Segments(substringFrom(str, indexOfChar(str, "-") + 1))

\* The pieces joined by '-' again.
RECURSIVE Join(_)
Join(segs) ==
    IF Len(segs) = 1 THEN segs[1]
    ELSE segs[1] \o <<"-">> \o Join(Tail(segs))

notIds ==
    <<wrapperVars, chainVars, workerVars, bypassVars, chainBypassVars, loaderVars,
      recentsVars, lockVars>>

\* One more segment is put at the end of the id.
idAppend(seg) ==
    /\ idPc = "input"
    /\ Len(Segments(idIn)) < MaxSegments
    /\ idIn' = idIn \o <<"-">> \o seg
    /\ UNCHANGED <<notIds, idPc, idOut, pluglist, descIn, found>>

\* The call convertJUCEtoAGPluginID(idIn).
idConvert ==
    /\ idPc = "input"
    /\ idOut' = convertJUCEtoAGPluginID(idIn)
    /\ idPc' = "done"
    /\ UNCHANGED <<notIds, idIn, pluglist, descIn, found>>

ConvertNext ==
    \/ \E seg \in IdSegments : idAppend(seg)
    \/ idConvert

InitConvert ==
    /\ idPc = "input"
    /\ idIn \in IdSegments
    /\ idOut = <<>>
    /\ pluglist = <<>>
    /\ descIn = 0
    /\ found = <<>>

InitConvertSpec ==
    InitConvert /\ InitWrappers /\ InitNoChain /\ InitNoWorker /\ InitNoBypass
    /\ InitNoChainBypass /\ InitNoLoader /\ InitNoRecents /\ InitNoLocks
SpecConvert == InitConvertSpec /\ [][ConvertNext]_vars

\* ---- catalogs for findPluginDescritpion
Descriptions ==
    [pluginFormatName : {VSTTag, VST3Tag},
     name : {<<"M">>, <<"M", "-", "a", "b">>},
     deprecatedUid : {1, 171},
     fileOrIdentifier : {<<"M">>}]

\* The catalog gets one more description.
catalogAdd(d) ==
    /\ idPc = "input"
    /\ Len(pluglist) < MaxCatalog
    /\ pluglist' = Append(pluglist, d)
    /\ UNCHANGED <<notIds, idPc, idIn, idOut, descIn, found>>

\* The id of the catalog's entry i is made and looked up.
catalogLookup(i) ==
    /\ idPc = "input"
    /\ idIn' = createPluginID(pluglist[i])
    /\ found' = findPluginDescritpionIn(pluglist, createPluginID(pluglist[i]))
    /\ descIn' = i
    /\ idPc' = "done"
    /\ UNCHANGED <<notIds, idOut, pluglist>>

LookupNext ==
    \/ \E d \in Descriptions : catalogAdd(d)
    \/ \E i \in 1..Len(pluglist) : catalogLookup(i)

InitLookupSpec ==
    InitNoIds /\ InitWrappers /\ InitNoChain /\ InitNoWorker /\ InitNoBypass
    /\ InitNoChainBypass /\ InitNoLoader /\ InitNoRecents /\ InitNoLocks
SpecLookup == InitLookupSpec /\ [][LookupNext]_vars

(***************************************************************************)
(* One session's threads and the mutexes they take.  The worker thread     *)
(* runs AudioWorker::run's block loop; the control threads call addPlugin, *)
(* delPlugin, exchangePlugins, updateChannels and clear on the same        *)
(* worker, or stand for another session that loads or unloads a plugin     *)
(* (parallel load is disabled, so every load and unload takes the global   *)
(* loader mutex).  Every lock and every unlock is a step of its own.       *)
(* m_pluginMtx is one mutex here for the m_pluginMtx of every wrapper,     *)
(* which only adds waiting.                                                *)
(***************************************************************************)
MaxLockChain == 1
Worker == "worker"
ControlThreads == {"controlA", "controlB"}
SessionThreads == {Worker} \cup ControlThreads
Free == "free"
m_mtx == "AudioWorker::m_mtx"
m_processors_mtx == "ProcessorChain::m_processors_mtx"
m_pluginMtx == "AGProcessor::m_pluginMtx"
pluginLoaderMtx == "AGProcessor::m_pluginLoaderMtx"
Mutexes == {m_mtx, m_processors_mtx, m_pluginMtx, pluginLoaderMtx}
LockIds == {Flex, Fixed, UnknownId}
Idle == <<"idle", "idle">>

notLocks ==
    <<wrapper, destroyed, loadRet, workerVars, bypassVars, chainBypassVars, loaderVars,
      recentsVars, idVars, m_channels>>

at(t, op, step) == tpc[t] = <<op, step>>
\* The thread goes on to the step named; "idle": the operation returns.
goto(t, op, step) ==
    tpc' = [tpc EXCEPT ![t] = IF step = "idle" THEN Idle ELSE <<op, step>>]
\* std::mutex::lock (it waits while another thread holds the mutex) and unlock.
lock(t, m) == mtx[m] = Free /\ mtx' = [mtx EXCEPT ![m] = t]
unlock(t, m) == mtx' = [mtx EXCEPT ![m] = Free]

\* A step that only takes a mutex, and one that only gives it back.
lockStep(t, op, from, m, to) ==
    /\ at(t, op, from) /\ lock(t, m) /\ goto(t, op, to)
    /\ UNCHANGED <<tw, numChannels, loadedCount, chainVars, notLocks>>
unlockStep(t, op, from, m, to) ==
    /\ at(t, op, from) /\ unlock(t, m) /\ goto(t, op, to)
    /\ UNCHANGED <<tw, numChannels, loadedCount, chainVars, notLocks>>

\* jmax(m_channelsIn + m_channelsSC, m_channelsOut) of AudioWorker::processBlock
BaseChannels == Max2(m_channels[1] + m_channels[3], m_channels[2])

(***************************************************************************)
(* AudioWorker::run, one iteration of the block loop after the other.      *)
(***************************************************************************)
\* waitForData: m_mtx is held while the socket is waited for.
runWaitForData ==
    \/ lockStep(Worker, "run", "waitForData", m_mtx, "waitUntilReady")
    \/ \E ready \in BOOLEAN :
          unlockStep(Worker, "run", "waitUntilReady", m_mtx,
                     IF ready THEN "readFromClient" ELSE "waitForData")

\* A block was read: m_mtx is taken for the rest of the iteration.
runReadFromClient == lockStep(Worker, "run", "readFromClient", m_mtx, "getExtraChannels")

\* AudioWorker::processBlock computes numChannels; getExtraChannels takes
\* m_processors_mtx for the read and gives it back.
runGetExtraChannels ==
    \/ lockStep(Worker, "run", "getExtraChannels", m_processors_mtx, "numChannels")
    \/ /\ at(Worker, "run", "numChannels")
       /\ numChannels' = BaseChannels + m_extraChannels
       /\ unlock(Worker, m_processors_mtx)
       /\ goto(Worker, "run", "processBlock")
       /\ UNCHANGED <<tw, loadedCount, chainVars, notLocks>>

\* m_chain->processBlock on a buffer of numChannels channels: the dispatch
\* loop runs under m_processors_mtx and takes each wrapper's m_pluginMtx for
\* getPlugin().
runProcessBlock ==
    \/ lockStep(Worker, "run", "processBlock", m_processors_mtx, "processBlockReal")
    \/ /\ m_processors = <<>>
       /\ unlockStep(Worker, "run", "processBlockReal", m_processors_mtx, "sendToClient")
    \/ /\ m_processors # <<>>
       /\ lockStep(Worker, "run", "processBlockReal", m_pluginMtx, "getPlugin")
    \/ unlockStep(Worker, "run", "getPlugin", m_pluginMtx, "processed")
    \/ unlockStep(Worker, "run", "processed", m_processors_mtx, "sendToClient")

\* sendToClient(..., m_chain->getLatencySamples(), ...), then the iteration
\* ends and m_mtx is given back.
runSendToClient ==
    /\ at(Worker, "run", "sendToClient")
    /\ unlock(Worker, m_mtx)
    /\ goto(Worker, "run", "waitForData")
    /\ numChannels' = 0
    /\ UNCHANGED <<tw, loadedCount, chainVars, notLocks>>

runThread ==
    \/ runWaitForData
    \/ runReadFromClient
    \/ runGetExtraChannels
    \/ runProcessBlock
    \/ runSendToClient

(***************************************************************************)
(* AGProcessor::~AGProcessor -> unload() on the wrapper tw[t] a control    *)
(* thread is about to drop, inside the operation op.                       *)
(***************************************************************************)
\* Where op goes on once the wrapper is gone.
AfterUnload(op) ==
    CASE op = "delProcessor" -> "updateNoLock"
      [] op = "clear" -> "m_processors.clear"
      [] OTHER -> "idle"

unloadThread(t, op) ==
    \/ lockStep(t, op, "unload", m_pluginMtx, "m_plugin.reset")
    \/ /\ at(t, op, "m_plugin.reset")
       /\ tw' = [tw EXCEPT ![t] = unload(tw[t], loadedCount).w]
       /\ loadedCount' = unload(tw[t], loadedCount).count
       /\ unlock(t, m_pluginMtx)
       /\ goto(t, op, "m_pluginLoaderMtx.lock")
       /\ UNCHANGED <<numChannels, chainVars, notLocks>>
    \/ lockStep(t, op, "m_pluginLoaderMtx.lock", pluginLoaderMtx, "p.reset")
    \/ /\ at(t, op, "p.reset")
       /\ tw' = [tw EXCEPT ![t] = Dead]
       /\ unlock(t, pluginLoaderMtx)
       /\ goto(t, op, AfterUnload(op))
       /\ UNCHANGED <<numChannels, loadedCount, chainVars, notLocks>>

(***************************************************************************)
(* AudioWorker::addPlugin -> ProcessorChain::addPluginProcessor.           *)
(***************************************************************************)
\* The wrappers that are in the chain or on their way into it.
Adding == {t \in ControlThreads : tpc[t][1] = "addPluginProcessor"}

\* make_shared<AGProcessor>, then load(): m_pluginLoaderMtx.lock().
addPluginBegin(t, id) ==
    /\ tpc[t] = Idle
    /\ Len(m_processors) + Cardinality(Adding) < MaxLockChain
    /\ tw' = [tw EXCEPT ![t] = NewWrapper(id)]
    /\ goto(t, "addPluginProcessor", "load")
    /\ UNCHANGED <<mtx, numChannels, loadedCount, chainVars, notLocks>>

\* loadPlugin, and m_plugin = p under m_pluginMtx when there is an instance.
addPluginLoad(t) ==
    \/ lockStep(t, "addPluginProcessor", "load", pluginLoaderMtx, "loadPlugin")
    \/ /\ loadPlugin(tw[t].id, TRUE) = NoPlugin
       /\ unlockStep(t, "addPluginProcessor", "loadPlugin", pluginLoaderMtx, "unload")
    \/ /\ loadPlugin(tw[t].id, TRUE) # NoPlugin
       /\ lockStep(t, "addPluginProcessor", "loadPlugin", m_pluginMtx, "m_plugin = p")
    \/ /\ at(t, "addPluginProcessor", "m_plugin = p")
       /\ LET p == loadPlugin(tw[t].id, TRUE)
          IN  tw' = [tw EXCEPT ![t] = [@ EXCEPT !.plugin = p,
                                                !.layout = PluginDefaultLayout(p),
                                                !.suspended = FALSE]]
       /\ unlock(t, m_pluginMtx)
       /\ goto(t, "addPluginProcessor", "initPluginInstance")
       /\ UNCHANGED <<numChannels, loadedCount, chainVars, notLocks>>

\* An initPluginInstance that waits for m_processors_mtx, inside load().
addPluginInitUnderChainMtx(t) ==
    /\ at(t, "addPluginProcessor", "initPluginInstance")
    /\ mtx[m_processors_mtx] = Free
    /\ LET init == initPluginInstance(tw[t], busesLayout, m_hasSidechain,
                                      m_sidechainDisabled, m_extraChannels)
       IN  /\ m_sidechainDisabled' = init.scd
           /\ m_extraChannels' = init.ec
           /\ tw' = [tw EXCEPT ![t] = IF init.supported THEN init.w
                                      ELSE [init.w EXCEPT !.plugin = NoPlugin]]
           /\ loadedCount' = IF init.supported THEN loadedCount + 1 ELSE loadedCount
    /\ goto(t, "addPluginProcessor", "m_pluginLoaderMtx.unlock")
    /\ UNCHANGED <<mtx, numChannels, m_processors, busesLayout, m_hasSidechain,
                   latencySamples, m_supportsDoublePrecission, m_tailSecs, lastOp,
                   notLocks>>

\* m_chain.initPluginInstance(this, err): setProcessorBusesLayout reads and
\* writes the chain's m_sidechainDisabled and m_extraChannels; loadedCount++
\* when it succeeds, m_plugin.reset() when it fails.
addPluginInit(t) ==
    /\ at(t, "addPluginProcessor", "initPluginInstance")
    /\ LET init == initPluginInstance(tw[t], busesLayout, m_hasSidechain,
                                      m_sidechainDisabled, m_extraChannels)
       IN  /\ m_sidechainDisabled' = init.scd
           /\ m_extraChannels' = init.ec
           /\ tw' = [tw EXCEPT ![t] = IF init.supported THEN init.w
                                      ELSE [init.w EXCEPT !.plugin = NoPlugin]]
           /\ loadedCount' = IF init.supported THEN loadedCount + 1 ELSE loadedCount
    /\ goto(t, "addPluginProcessor", "m_pluginLoaderMtx.unlock")
    /\ UNCHANGED <<mtx, numChannels, m_processors, busesLayout, m_hasSidechain,
                   latencySamples, m_supportsDoublePrecission, m_tailSecs, lastOp,
                   notLocks>>

\* load() returns; addProcessor takes m_processors_mtx, appends the wrapper
\* and runs updateNoLock.  A wrapper that did not load is destroyed.
addPluginAdd(t) ==
    \/ unlockStep(t, "addPluginProcessor", "m_pluginLoaderMtx.unlock", pluginLoaderMtx,
                  IF tw[t].plugin # NoPlugin THEN "addProcessor" ELSE "unload")
    \/ lockStep(t, "addPluginProcessor", "addProcessor", m_processors_mtx, "push_back")
    \/ /\ at(t, "addPluginProcessor", "push_back")
       /\ m_processors' = addProcessor(m_processors, tw[t])
       /\ SetAggregates(addProcessor(m_processors, tw[t]))
       /\ tw' = [tw EXCEPT ![t] = Dead]
       /\ unlock(t, m_processors_mtx)
       /\ goto(t, "addPluginProcessor", "idle")
       /\ UNCHANGED <<numChannels, loadedCount, busesLayout, m_hasSidechain, lastOp,
                      notLocks>>

addPluginThread(t) ==
    \/ \E id \in LockIds : addPluginBegin(t, id)
    \/ addPluginLoad(t)
    \/ addPluginInit(t)
    \/ addPluginAdd(t)
    \/ unloadThread(t, "addPluginProcessor")

(***************************************************************************)
(* AudioWorker::delPlugin -> ProcessorChain::delProcessor(idx).            *)
(***************************************************************************)
delPluginThread(t) ==
    \/ /\ tpc[t] = Idle
       /\ goto(t, "delProcessor", "lock")
       /\ UNCHANGED <<mtx, tw, numChannels, loadedCount, chainVars, notLocks>>
    \/ lockStep(t, "delProcessor", "lock", m_processors_mtx, "erase")
    \/ /\ at(t, "delProcessor", "erase")
       /\ \E idx \in -1..MaxLockChain :
             LET hit == idx + 1 \in 1..Len(m_processors)
             IN  /\ m_processors' = Erased(m_processors, idx)
                 /\ tw' = [tw EXCEPT ![t] = IF hit THEN m_processors[idx + 1] ELSE Dead]
                 /\ goto(t, "delProcessor", IF hit THEN "unload" ELSE "updateNoLock")
       /\ UNCHANGED <<mtx, numChannels, loadedCount, chainOnly, notLocks>>
    \/ unloadThread(t, "delProcessor")
    \/ /\ at(t, "delProcessor", "updateNoLock")
       /\ SetAggregates(m_processors)
       /\ unlock(t, m_processors_mtx)
       /\ goto(t, "delProcessor", "idle")
       /\ UNCHANGED <<tw, numChannels, loadedCount, m_processors, busesLayout,
                      m_hasSidechain, lastOp, notLocks>>

(***************************************************************************)
(* AudioWorker::exchangePlugins -> ProcessorChain::exchangeProcessors.     *)
(***************************************************************************)
exchangePluginsThread(t) ==
    \/ /\ tpc[t] = Idle
       /\ goto(t, "exchangeProcessors", "lock")
       /\ UNCHANGED <<mtx, tw, numChannels, loadedCount, chainVars, notLocks>>
    \/ lockStep(t, "exchangeProcessors", "lock", m_processors_mtx, "swap")
    \/ /\ at(t, "exchangeProcessors", "swap")
       /\ \E idxA, idxB \in 0..MaxLockChain :
             m_processors' = Exchanged(m_processors, idxA, idxB)
       /\ unlock(t, m_processors_mtx)
       /\ goto(t, "exchangeProcessors", "idle")
       /\ UNCHANGED <<tw, numChannels, loadedCount, chainOnly, notLocks>>

(***************************************************************************)
(* ProcessorChain::updateChannels with the session's channel counts.       *)
(***************************************************************************)
updateChannelsThread(t) ==
    \/ /\ tpc[t] = Idle
       /\ goto(t, "updateChannels", "lock")
       /\ UNCHANGED <<mtx, tw, numChannels, loadedCount, chainVars, notLocks>>
    \/ lockStep(t, "updateChannels", "lock", m_processors_mtx, "setProcessorBusesLayout")
    \/ /\ at(t, "updateChannels", "setProcessorBusesLayout")
       /\ LET u == UpdateChannelsLoop(m_processors, 1, busesLayout, m_channels[3] > 0,
                                      FALSE, 0)
          IN  /\ m_hasSidechain' = (m_channels[3] > 0)
              /\ m_processors' = u.procs
              /\ m_sidechainDisabled' = u.scd
              /\ m_extraChannels' = u.ec
       /\ unlock(t, m_processors_mtx)
       /\ goto(t, "updateChannels", "idle")
       /\ UNCHANGED <<tw, numChannels, loadedCount, busesLayout, latencySamples,
                      m_supportsDoublePrecission, m_tailSecs, lastOp, notLocks>>

(***************************************************************************)
(* AudioWorker::clear -> ProcessorChain::clear: releaseResources() under   *)
(* m_processors_mtx, then m_processors.clear() under it again, which       *)
(* destroys the wrappers one after the other.                              *)
(***************************************************************************)
clearThread(t) ==
    \/ /\ tpc[t] = Idle
       /\ goto(t, "clear", "releaseResources")
       /\ UNCHANGED <<mtx, tw, numChannels, loadedCount, chainVars, notLocks>>
    \/ lockStep(t, "clear", "releaseResources", m_processors_mtx, "released")
    \/ /\ at(t, "clear", "released")
       /\ m_processors' = AllReleased(m_processors)
       /\ unlock(t, m_processors_mtx)
       /\ goto(t, "clear", "lock")
       /\ UNCHANGED <<tw, numChannels, loadedCount, chainOnly, notLocks>>
    \/ lockStep(t, "clear", "lock", m_processors_mtx, "m_processors.clear")
    \/ /\ at(t, "clear", "m_processors.clear")
       /\ m_processors # <<>>
       /\ tw' = [tw EXCEPT ![t] = Head(m_processors)]
       /\ m_processors' = Tail(m_processors)
       /\ goto(t, "clear", "unload")
       /\ UNCHANGED <<mtx, numChannels, loadedCount, chainOnly, notLocks>>
    \/ unloadThread(t, "clear")
    \/ /\ m_processors = <<>>
       /\ unlockStep(t, "clear", "m_processors.clear", m_processors_mtx, "idle")

(***************************************************************************)
(* Another session loads or unloads a plugin: its load() or unload() holds *)
(* the global loader mutex for a while.                                    *)
(***************************************************************************)
otherSessionThread(t) ==
    \/ /\ tpc[t] = Idle
       /\ goto(t, "otherSession", "m_pluginLoaderMtx.lock")
       /\ UNCHANGED <<mtx, tw, numChannels, loadedCount, chainVars, notLocks>>
    \/ lockStep(t, "otherSession", "m_pluginLoaderMtx.lock", pluginLoaderMtx,
                "m_pluginLoaderMtx.unlock")
    \/ unlockStep(t, "otherSession", "m_pluginLoaderMtx.unlock", pluginLoaderMtx, "idle")

controlThread(t) ==
    \/ addPluginThread(t)
    \/ delPluginThread(t)
    \/ exchangePluginsThread(t)
    \/ updateChannelsThread(t)
    \/ clearThread(t)
    \/ otherSessionThread(t)

LocksNext ==
    \/ runThread
    \/ \E t \in ControlThreads : controlThread(t)

\* The session after AudioWorker::init, the worker about to enter its loop.
InitLocks ==
    /\ mtx = [m \in Mutexes |-> Free]
    /\ tpc = [t \in SessionThreads |->
                 IF t = Worker THEN <<"run", "waitForData">> ELSE Idle]
    /\ tw = [t \in ControlThreads |-> Dead]
    /\ numChannels = 0
    /\ \E c \in ChannelConfigs :
          /\ m_channels = c
          /\ busesLayout = ChannelsLayout(c[1], c[2], c[3])

InitLocksSpec ==
    InitLocks /\ InitWrappers /\ InitChain /\ InitNoWorker /\ InitNoBypass
    /\ InitNoChainBypass /\ InitNoLoader /\ InitNoRecents /\ InitNoIds
SpecLocks == InitLocksSpec /\ [][LocksNext]_vars
\* Every call the threads make returns, and a thread that waits for a mutex
\* which is free again and again gets it at some point.
SpecLocksFair ==
    /\ SpecLocks
    /\ SF_vars(runThread)
    /\ \A t \in ControlThreads : SF_vars(tpc[t] # Idle /\ controlThread(t))

(***************************************************************************)
(* The properties.                                                         *)
(***************************************************************************)
\* sendToClient was called for block b (the write went through or failed).
Responded(b) == \E j \in 1..Len(sendLog) : sendLog[j][1] = b
\* How often block b was handed to the chain.
TimesProcessed(b) == Cardinality({j \in 1..Len(procLog) : procLog[j] = b})

\* C1: the worker handles one block at a time and in order: every block but
\* the one read last has had its response written (or its write failed);
\* every block read went through the chain exactly once, except the block
\* read last while it still waits for the chain or after it was rejected
\* by the channel check; the responses follow the order of the reads.
C1_OneBlockAtATime ==
    /\ \A i \in 1..(Len(readLog) - 1) : Responded(readLog[i])
    /\ \A i \in 1..Len(readLog) :
          TimesProcessed(readLog[i]) =
              IF i = Len(readLog)
                 /\ (pc \in {"validate", "process"} \/ endCause = "mismatch")
              THEN 0 ELSE 1
    /\ \A j \in 1..Len(procLog) : procLog[j] \in Range(readLog)
    /\ Len(sendLog) <= Len(readLog)
    /\ \A j \in 1..Len(sendLog) : sendLog[j][1] = readLog[j]

\* Two blocks were read, processed and answered, in this order.
C1_Witness ==
    /\ pc = "top"
    /\ readLog = <<1, 2>>
    /\ procLog = <<1, 2>>
    /\ sendLog = << <<1, TRUE>>, <<2, TRUE>> >>

ShutDown == atShutdown # NotShutDown

\* C2: shutdown() is seen only at the top of the loop.  A block that was being
\* processed when shutdown() was called still gets its response; after
\* shutdown() at most the iteration under way reads a block (it does when
\* shutdown() came between the loop's test and the read) and none is read
\* after it; and run() returns.
C2_ShutdownAtLoopTop ==
    /\ [](/\ (atShutdown.pc \in {"process", "send"} /\ pc \notin {"process", "send"})
                => Responded(atShutdown.cur)
          /\ ShutDown =>
                Len(readLog) <= atShutdown.reads
                                + (IF atShutdown.pc \in {"wait", "read"} THEN 1 ELSE 0))
    /\ (ShutDown ~> (pc = "done"))

\* shutdown() came while block 1 was in the chain; the block was answered and
\* run() returned.
C2_Witness ==
    /\ atShutdown.pc = "process"
    /\ atShutdown.cur = 1
    /\ sendLog = << <<1, TRUE>> >>
    /\ pc = "done"

\* The wrappers of the list procs that hold a plugin.
LoadedIn(procs) == Cardinality({i \in 1..Len(procs) : procs[i].plugin # NoPlugin})

Fatal == endCause # "none"

\* C4: a failed read, a block with fewer channels than the mask's active
\* inputs and a failed write each end the session: the socket is closed, no
\* block is read, processed or answered afterwards, and run() returns.  The
\* block that failed the channel check never reaches the chain, gets no
\* response, and the chain's resources are released.
C4_FatalErrorsEndSession ==
    /\ [](Fatal => (~connected /\ pc \in {"top", "epilogue", "done"}))
    /\ []((endCause = "mismatch") =>
             /\ TimesProcessed(readLog[Len(readLog)]) = 0
             /\ ~Responded(readLog[Len(readLog)])
             /\ \A i \in 1..Len(m_processors) : ~m_processors[i].prepared)
    /\ [][Fatal => (readLog' = readLog /\ procLog' = procLog /\ sendLog' = sendLog)]_vars
    /\ (Fatal ~> (pc = "done"))

\* The second block failed the channel check with a plugin in the chain, and
\* run() returned.
C4_Witness ==
    /\ pc = "done"
    /\ endCause = "mismatch"
    /\ readLog = <<1, 2>>
    /\ procLog = <<1>>
    /\ exitCleared >= 1

\* C5: every wrapper of the chain has chainIndex equal to its position.
C5_ChainIndexIsPosition ==
    \A i \in 1..Len(m_processors) : m_processors[i].chainIdx = i - 1

\* The latency, the double-precision capability and the extra channel demands
\* of the wrappers of the chain, read off the wrappers one by one.
RECURSIVE LatencyOfFirst(_)
LatencyOfFirst(n) ==
    IF n = 0 THEN 0
    ELSE LatencyOfFirst(n - 1)
         + (IF m_processors[n].plugin # NoPlugin
            THEN PluginLatency(m_processors[n].plugin) ELSE 0)
AllDoubleCapable ==
    \A i \in 1..Len(m_processors) :
        m_processors[i].plugin # NoPlugin => PluginDouble(m_processors[i].plugin)
ExtraDemands ==
    {0} \cup {m_processors[i].extraIn : i \in 1..Len(m_processors)}
        \cup {m_processors[i].extraOut : i \in 1..Len(m_processors)}

\* C6: after a completed addPlugin or deleteProcessor the chain's
\* latencySamples is the sum of the latencies of the wrappers in the chain,
\* supportsDoublePrecision the conjunction of their capability, and
\* extraChannels the largest of their extraIn / extraOut demands (0 when none
\* of them demands any).
C6_AggregatesAfterAddDel ==
    lastOp \in {"add", "del"} =>
        /\ latencySamples = LatencyOfFirst(Len(m_processors))
        /\ m_supportsDoublePrecission = AllDoubleCapable
        /\ m_extraChannels \in ExtraDemands
        /\ \A x \in ExtraDemands : m_extraChannels >= x

\* Plugins with latency 64 and 128 were added (192) and the first was removed:
\* the chain reports 128.
C6_Witness ==
    /\ lastOp = "del"
    /\ Len(m_processors) = 1
    /\ m_processors[1].plugin = NoSC
    /\ m_processors[1].chainIdx = 1
    /\ latencySamples = 128

\* C7: a chain without processors reports latency 0, tail 0 and
\* supportsDoublePrecision true.
C7_EmptyChainNeutral ==
    m_processors = <<>> =>
        (latencySamples = 0 /\ m_tailSecs = 0 /\ m_supportsDoublePrecission)

\* C8: load() on a wrapper that already holds a plugin returns success and
\* changes neither the wrapper nor the loaded-plugin counter.
C8_LoadIdempotent ==
    [][(wrapper.plugin # NoPlugin /\ \E instOk \in BOOLEAN : wrapperLoad(instOk)) =>
          (loadRet' = "true" /\ wrapper' = wrapper /\ loadedCount' = loadedCount)]_vars

\* C9: a wrapper without a plugin handle is not prepared.
C9_NullPluginNotPrepared == wrapper.plugin = NoPlugin => ~wrapper.prepared

\* in delayed by latency samples: latency zeros first, cut to the length of in.
Delayed(in, latency) == SubSeq(Zeros(latency) \o in, 1, Len(in))

\* C10: with a FIFO of lastKnownLatency samples for every output channel, what
\* successive processBlockBypassed calls (of one precision) return on a channel
\* below both the input and the output channel count is what they were given,
\* lastKnownLatency samples later, whatever the block sizes.
C10_BypassIsDelay ==
    \A c \in 1..Min2(chainIn, chainOut) :
        /\ Len(m_bypassBufferF) >= chainOut =>
              outHistF[c] = Delayed(inHistF[c], m_lastKnownLatency)
        /\ Len(m_bypassBufferD) >= chainOut =>
              outHistD[c] = Delayed(inHistD[c], m_lastKnownLatency)

\* An impulse came back two samples late, and the next sample is still held.
C10_Witness ==
    /\ m_lastKnownLatency = 2
    /\ Len(m_bypassBufferF) >= chainOut
    /\ inHistF[1] = <<1, 0, 1>>
    /\ outHistF[1] = <<0, 0, 1>>
    /\ m_bypassBufferF[1] = <<0, 1>>

\* C11: a chain whose wrappers are all suspended, each with its latency
\* buffers set up, returns on every main channel what it was given, later by
\* the sum of the wrappers' latencies.
C11_FullBypassIsDelay ==
    (\A i \in 1..Len(m_processors) :
         isSuspended(m_processors[i]) /\ LatencyBuffersReady(i)) =>
        \A c \in 1..Min2(busesLayout.ins[1], busesLayout.outs[1]) :
            outHistF[c] = Delayed(inHistF[c], SumFrom(lastKnownLatencies, 1))

\* The candidate layouts of the negotiation for a plugin that comes with the
\* layout own, in the order they are tried: the chain layout (less input bus 1
\* when the sidechain is already disabled), that layout with a mono sidechain
\* (when a sidechain is present with more than one channel), the layout without
\* the sidechain, the plugin's own layout.
NegotiationCandidates(cl, hasSC, scd, own) ==
    LET base == IF hasSC /\ scd THEN Layout(SubSeq(cl.ins, 1, 1), cl.outs) ELSE cl
        present == hasSC /\ ~scd
    IN  << [n |-> 1, layout |-> base] >>
        \o (IF present /\ base.ins[2] > 1
            THEN << [n |-> 2, layout |-> Layout(<<base.ins[1], 1>>, base.outs)] >>
            ELSE << >>)
        \o << [n |-> 3, layout |-> Layout(SubSeq(base.ins, 1, 1), base.outs)],
              [n |-> 4, layout |-> own] >>

\* The first candidate the plugin k accepts; it always takes the last, its own.
FirstAccepted(k, cands) ==
    cands[CHOOSE i \in 1..Len(cands) :
            /\ i = Len(cands) \/ checkBusesLayoutSupported(k, cands[i].layout)
            /\ \A j \in 1..(i - 1) : ~checkBusesLayoutSupported(k, cands[j].layout)]

\* The candidate a load() that has just given the wrapper its plugin adopted.
AdoptedOnLoad ==
    FirstAccepted(wrapper'.plugin,
                  NegotiationCandidates(busesLayout, m_hasSidechain, m_sidechainDisabled,
                                        PluginDefaultLayout(wrapper'.plugin)))

\* C12 (as stated): the negotiation adopts the first accepted candidate, and it
\* sets needsDisabledSidechain on the wrapper and sidechainDisabled on the chain
\* exactly when that is candidate 3 or 4 on a chain with a sidechain.
C12_NegotiationAsStated ==
    [][(wrapper.plugin = NoPlugin /\ wrapper'.plugin # NoPlugin) =>
          /\ wrapper'.layout = AdoptedOnLoad.layout
          /\ wrapper'.needsDisabledSidechain =
                (wrapper.needsDisabledSidechain
                 \/ (AdoptedOnLoad.n \in {3, 4} /\ m_hasSidechain))
          /\ m_sidechainDisabled' =
                (m_sidechainDisabled
                 \/ (AdoptedOnLoad.n \in {3, 4} /\ m_hasSidechain))]_vars

\* C12 (amended): the negotiation adopts the first accepted candidate; it sets
\* needsDisabledSidechain on the wrapper exactly when that is candidate 3 or 4,
\* with or without a sidechain on the chain, and sidechainDisabled on the chain
\* exactly when it is candidate 3 or 4 on a chain with a sidechain.
C12_NegotiationOrder ==
    [][(wrapper.plugin = NoPlugin /\ wrapper'.plugin # NoPlugin) =>
          /\ wrapper'.layout = AdoptedOnLoad.layout
          /\ wrapper'.needsDisabledSidechain =
                (wrapper.needsDisabledSidechain \/ AdoptedOnLoad.n \in {3, 4})
          /\ m_sidechainDisabled' =
                (m_sidechainDisabled
                 \/ (AdoptedOnLoad.n \in {3, 4} /\ m_hasSidechain))]_vars

\* Stereo in, stereo sidechain, stereo out and a plugin that takes no sidechain:
\* the sidechain is gone from the layout and both flags are set.
C12_Witness ==
    /\ lastOp = "load"
    /\ busesLayout = Layout(<<2, 2>>, <<2>>)
    /\ wrapper.plugin = NoSC
    /\ wrapper.layout = Layout(<<2>>, <<2>>)
    /\ wrapper.needsDisabledSidechain
    /\ m_sidechainDisabled

InLoadWindow(t) == lpc[t] \in {"loadPlugin", "loadInit", "loadUnlock"}
InReleaseWindow(t) == lpc[t] \in {"unloadRelease", "unloadUnlock"}

\* C13: with parallel load disabled no two threads are inside a load window or
\* an unload release window at once, a thread is inside one only while it
\* holds the loader mutex, and it holds the mutex at no other point: load() and
\* unload() give it back on every path before they return.
C13_LoaderMutexSerializes ==
    ~m_parallelLoadAllowed =>
        /\ \A t1, t2 \in LoaderThreads :
              (t1 # t2 /\ (InLoadWindow(t1) \/ InReleaseWindow(t1)))
                 => ~(InLoadWindow(t2) \/ InReleaseWindow(t2))
        /\ \A t \in LoaderThreads :
              (InLoadWindow(t) \/ InReleaseWindow(t)) <=> m_pluginLoaderMtx = t

\* A load() whose init failed is about to return and the other thread already
\* holds the loader mutex in its own load window.
C13_Witness ==
    /\ ~m_parallelLoadAllowed
    /\ lpc[1] = "loadReturn"
    /\ lres[1] = "initFailed"
    /\ m_pluginLoaderMtx = 2
    /\ InLoadWindow(2)

\* The posted deletes and the handles now.
Posted(i) == \E j \in 1..Len(msgQueue) : msgQueue[j] = i
Held(i) == Refs(i, m_plugin, lp, held) > 0

\* C14: an instance is deleted at most once and only while no handle to it is
\* left (the wrapper's member, a local of load() or unload(), an in-flight
\* block); an instance without a handle is deleted or its delete is posted;
\* only the message thread, running a posted delete, deletes; and whatever is
\* posted is run.
C14_DeletedOnceAfterLastHolder ==
    /\ [](\A i \in 1..MaxInstances :
             /\ deletes[i] <= 1
             /\ (deletes[i] > 0 \/ Posted(i)) => ~Held(i)
             /\ (created >= i /\ ~Held(i)) => (Posted(i) \/ deletes[i] = 1))
    /\ [][deletes' # deletes =>
             /\ msgQueue # <<>>
             /\ msgQueue' = Tail(msgQueue)
             /\ deletes' = [deletes EXCEPT ![Head(msgQueue)] = 1]]_vars
    /\ []<>(msgQueue = <<>>)

\* unload() has returned, the wrapper's handle is cleared, and the instance
\* lives on in the hands of an in-flight block.
C14_Witness ==
    /\ \A t \in LoaderThreads : lpc[t] = "idle"
    /\ \A w \in LoaderWrappers : m_plugin[w] = 0
    /\ created = 1
    /\ held = 1
    /\ deletes[1] = 0
    /\ msgQueue = <<>>

\* list is the beginning of other.
IsPrefix(list, other) ==
    Len(list) <= Len(other) /\ list = SubSeq(other, 1, Len(list))

\* C15: every host's recents list has no description twice and at most
\* DEFAULT_NUM_RECENTS entries; after an insert for host h the plugin added is
\* first in h's list, the entries that were there before follow it in their
\* old order (cut at the maximum), and the lists of the other hosts are what
\* they were; a call whose id does not resolve leaves every list as it is.
C15_RecentsBoundedMRU ==
    /\ [](\A h \in RecentsHosts :
             /\ Len(m_recents[h]) <= DEFAULT_NUM_RECENTS
             /\ \A i, j \in 1..Len(m_recents[h]) :
                   i # j => m_recents[h][i] # m_recents[h][j]
             /\ \A i \in 1..Len(m_recents[h]) : m_recents[h][i] \in PluginKinds)
    /\ [](lastAdd # NoAdd =>
             /\ m_recents[lastAdd.host] # <<>>
             /\ Head(m_recents[lastAdd.host]) = lastAdd.plug
             /\ IsPrefix(Tail(m_recents[lastAdd.host]),
                         SelectSeq(lastAdd.before[lastAdd.host],
                                   LAMBDA x : x # lastAdd.plug))
             /\ Len(m_recents[lastAdd.host]) =
                   Min2(DEFAULT_NUM_RECENTS,
                        1 + Len(SelectSeq(lastAdd.before[lastAdd.host],
                                          LAMBDA x : x # lastAdd.plug)))
             /\ \A h \in RecentsHosts \ {lastAdd.host} :
                   m_recents[h] = lastAdd.before[h])
    /\ [][\A t \in RecentsThreads :
             (rpc[t].pc = "find" /\ findPluginDescritpion(rpc[t].id) = NoPlugin
              /\ rpc'[t] # rpc[t]) => m_recents' = m_recents]_vars

\* A full list got the plugin at its end again: it moved to the front, and the
\* other host's list stayed.
C15_Witness ==
    /\ lastAdd # NoAdd
    /\ lastAdd.host = "hostA"
    /\ lastAdd.plug = Mono
    /\ lastAdd.before["hostA"] = <<Flex, Mono>>
    /\ m_recents["hostA"] = <<Mono, Flex>>
    /\ m_recents["hostB"] = <<NoSC>>

\* Every character of str is a lowercase hex digit.
IsLowerHex(str) == \A i \in 1..Len(str) : str[i] \in Range(HexChars)
\* Every character of str is a hex digit, in either case.
IsHex(str) == IsLowerHex(toLowerCase(str))

C17_LookupRoundTrip ==
    idPc = "done" /\ descIn > 0 =>
        /\ found # <<>>
        /\ createPluginID(found[1]) = createPluginID(pluglist[descIn])

\* The chain's aggregates.
Aggregates ==
    <<latencySamples, m_extraChannels, m_sidechainDisabled,
      m_supportsDoublePrecission, m_tailSecs>>

\* idx is no position of the list.
OutOfRange(idx) == idx < 0 \/ idx >= Len(m_processors)

\* C18: a delProcessor whose index is out of range, and an exchangeProcessors
\* with an index out of range, leave the list with every wrapper's chain
\* index and all the aggregates as they were.
C18_OutOfRangeNoOp ==
    [][/\ \A idx \in -1..MaxChain :
             OutOfRange(idx) /\ delProcessor(idx) =>
                 UNCHANGED <<m_processors, Aggregates>>
       /\ \A a, b \in -1..MaxChain :
             (OutOfRange(a) \/ OutOfRange(b)) /\ exchangeProcessors(a, b) =>
                 UNCHANGED <<m_processors, Aggregates>>]_vars

\* C19: after an exchangeProcessors with both indexes in range the tail is
\* that of the last wrapper of the new order that is not suspended, 0 if
\* there is none.
C19_ExchangeRecomputesTail ==
    [][\A a, b \in 0..(MaxChain - 1) :
          ~OutOfRange(a) /\ ~OutOfRange(b) /\ exchangeProcessors(a, b) =>
              m_tailSecs' =
                  IF LastActive(m_processors', Len(m_processors')) = 0 THEN 0
                  ELSE getTailLengthSeconds(
                           m_processors'[LastActive(m_processors', Len(m_processors'))])]_vars

\* C20: updateChannels(in, out, sc) leaves a layout whose input bus 0 has in
\* channels, whose input bus 1 is there exactly if sc > 0 and then has sc
\* channels, and whose output bus 0 has out channels; hasSidechain is sc > 0;
\* on an empty chain extraChannels is 0 and sidechainDisabled is false, and
\* every processor has a layout its plugin accepts or the one it had.
C20_UpdateChannels ==
    [][\A channelsIn \in SessionIns, channelsOut \in SessionOuts,
          channelsSC \in SessionSCs :
          updateChannels(channelsIn, channelsOut, channelsSC) =>
              /\ BusSize(busesLayout'.ins, 0) = channelsIn
              /\ (Len(busesLayout'.ins) > 1) = (channelsSC > 0)
              /\ channelsSC > 0 => BusSize(busesLayout'.ins, 1) = channelsSC
              /\ BusSize(busesLayout'.outs, 0) = channelsOut
              /\ m_hasSidechain' = (channelsSC > 0)
              /\ m_processors = <<>> =>
                     m_extraChannels' = 0 /\ m_sidechainDisabled' = FALSE
              /\ \A i \in 1..Len(m_processors') :
                     \/ checkBusesLayoutSupported(m_processors'[i].plugin,
                                                  m_processors'[i].layout)
                     \/ m_processors'[i].layout = m_processors[i].layout]_vars

\* The lengths of the FIFOs of both sets.
FifoLengths ==
    <<[c \in 1..Len(m_bypassBufferF) |-> Len(m_bypassBufferF[c])],
      [c \in 1..Len(m_bypassBufferD) |-> Len(m_bypassBufferD[c])]>>

\* C21: right after updateLatencyBuffers every FIFO of the float and of the
\* double set has m_lastKnownLatency samples and there is one for each output
\* channel of the plugin; a step that is not updateLatencyBuffers, so every
\* processBlockBypassed, leaves the length of every FIFO as it was.
C21_FifoLengthIsLatency ==
    [][/\ bypassUpdateLatencyBuffers =>
             /\ Len(m_bypassBufferF') >= PluginOutputs(wrapper)
             /\ Len(m_bypassBufferD') >= PluginOutputs(wrapper)
             /\ \A c \in 1..Len(m_bypassBufferF') :
                   Len(m_bypassBufferF'[c]) = m_lastKnownLatency
             /\ \A c \in 1..Len(m_bypassBufferD') :
                   Len(m_bypassBufferD'[c]) = m_lastKnownLatency
       /\ bypassUpdateLatencyBuffers \/ FifoLengths' = FifoLengths]_vars

\* C22: loadedCount never is below 0, and when no load() or unload() is under
\* way it is the number of wrappers that hold a plugin.
C22_LoadedCountIsLoadedWrappers ==
    /\ loadedCount >= 0
    /\ (\A t \in LoaderThreads : lpc[t] = "idle") =>
           loadedCount = Cardinality({w \in LoaderWrappers : m_plugin[w] # 0})

\* The steps that read or write one of the chain's aggregate fields
\* (m_extraChannels, m_sidechainDisabled, m_hasSidechain, the latency, the
\* double precision flag, the tail): getExtraChannels and getLatencySamples
\* in the worker, setProcessorBusesLayout and updateNoLock in the control
\* threads.
AggregateAccess ==
    {<<"run", "numChannels">>, <<"run", "sendToClient">>,
     <<"addPluginProcessor", "initPluginInstance">>,
     <<"addPluginProcessor", "push_back">>,
     <<"delProcessor", "updateNoLock">>,
     <<"updateChannels", "setProcessorBusesLayout">>}

\* C23: the chain's aggregate fields are only read or written while the
\* chain's processors mutex is held: every step of a thread that reads or
\* writes one of them is taken while that thread holds m_processors_mtx, the
\* bus negotiation inside addPlugin's load included.
C23_AggregatesUnderProcessorsMtx ==
    [][\A t \in SessionThreads :
          tpc[t] \in AggregateAccess /\ tpc'[t] # tpc[t] =>
              mtx[m_processors_mtx] = t]_vars

\* What the wrappers of the list demand: the m_extraChannels updateNoLock
\* computes from them.
Demanded == updateNoLock(m_processors, m_hasSidechain).ec
InProcessBlock ==
    tpc[Worker] \in {<<"run", "processBlockReal">>, <<"run", "getPlugin">>,
                     <<"run", "processed">>}

\* C24: whenever the worker hands a buffer to the chain for a block, the
\* buffer has at least max(channelsIn + channelsSC, channelsOut) plus the
\* extra channels demanded by the wrappers that take part in processing that
\* block, also when an addPlugin runs at the same time.
C24_BufferWideEnough ==
    InProcessBlock => numChannels >= BaseChannels + Demanded

\* C25: no deadlock: every operation a control thread starts completes, and
\* the worker comes back to the top of its block loop again and again.
C25_EveryOperationCompletes ==
    /\ []<>(tpc[Worker] = <<"run", "waitForData">>)
    /\ \A t \in ControlThreads : []<>(tpc[t] = Idle)
\* A delProcessor holds m_processors_mtx and waits for the loader mutex an
\* addPlugin's load holds, while the worker holds m_mtx and waits for
\* m_processors_mtx.
C25_Witness ==
    /\ tpc["controlA"] = <<"delProcessor", "m_pluginLoaderMtx.lock">>
    /\ mtx[m_processors_mtx] = "controlA"
    /\ tpc["controlB"][1] = "addPluginProcessor"
    /\ mtx[pluginLoaderMtx] = "controlB"
    /\ tpc[Worker] = <<"run", "processBlock">>
    /\ mtx[m_mtx] = Worker

\* C26: the two ways of computing sidechainDisabled and extraChannels agree:
\* in the state updateChannels leaves, an update() that follows at once
\* (updateNoLock on the same list) leaves m_sidechainDisabled and
\* m_extraChannels as they are.
C26_UpdateAgreesWithUpdateChannels ==
    [][\A channelsIn \in SessionIns, channelsOut \in SessionOuts,
          channelsSC \in SessionSCs :
          updateChannels(channelsIn, channelsOut, channelsSC) =>
              LET u == updateNoLock(m_processors', m_hasSidechain')
              IN  /\ u.scd = m_sidechainDisabled'
                  /\ u.ec = m_extraChannels']_vars
====
